---- MODULE Spec2Model ----
\* Verification model of the Rust `use` import organizer: lexer, tree parser,
\* file scanner, flatten / rebuild, merge engine, sorter, grouper and
\* formatter.  Text is a sequence of one-character strings; an absent
\* optional string (alias, visibility) is the empty sequence, an absent
\* optional list (children, attributes) is the empty list, an absent range
\* is the empty list and a present one a one-element list.
EXTENDS Integers, Sequences, FiniteSets, TLC

VARIABLES
    pc,        \* position of the running operation
    src,       \* text handed to the scanner / parser
    stmts,     \* statements handed to the merge engine
    merged,    \* statements returned by the merge engine
    rendered,  \* text produced by the formatter
    aux        \* per-operation result (parse outcome, rebuilt tree, first pass text)

vars == <<pc, src, stmts, merged, rendered, aux>>

\* ---------------------------------------------------------------------
\* Characters and strings
\* ---------------------------------------------------------------------
NL == "\n"
WS == {" ", "\t"}
LowerChars == {"a","b","c","d","e","f","g","h","i","j","k","l","m",
               "n","o","p","q","r","s","t","u","v","w","x","y","z"}
UpperChars == {"A","B","C","D","E","F","G","H","I","J","K","L","M",
               "N","O","P","Q","R","S","T","U","V","W","X","Y","Z"}
DigitChars == {"0","1","2","3","4","5","6","7","8","9"}
IdentStartChars == LowerChars \cup UpperChars \cup {"_"}
IdentChars == IdentStartChars \cup DigitChars

kwUse == <<"u","s","e">>
kwPub == <<"p","u","b">>
kwAs == <<"a","s">>
kwSelf == <<"s","e","l","f">>
kwCrate == <<"c","r","a","t","e">>
kwSuper == <<"s","u","p","e","r">>
kwIn == <<"i","n">>
sStar == <<"*">>
sColons == <<":",":">>
sUnderscore == <<"_">>

\* s.slice / s.substring(from, to) with 0-based, end-exclusive indices
Slice(s, from, to) ==
    IF to <= from THEN <<>> ELSE SubSeq(s, from + 1, IF to > Len(s) THEN Len(s) ELSE to)

Front(s) == SubSeq(s, 1, Len(s) - 1)

StartsWithAt(s, p, pat) ==
    /\ p + Len(pat) <= Len(s)
    /\ \A k \in 1..Len(pat) : s[p + k] = pat[k]

StartsWith(s, pat) == StartsWithAt(s, 0, pat)

RECURSIVE FlatConcat(_)
FlatConcat(ss) == IF ss = <<>> THEN <<>> ELSE Head(ss) \o FlatConcat(Tail(ss))

\* Array.prototype.join
RECURSIVE Join(_, _)
Join(ss, sep) ==
    IF ss = <<>> THEN <<>>
    ELSE IF Len(ss) = 1 THEN ss[1]
    ELSE ss[1] \o sep \o Join(Tail(ss), sep)

\* String.prototype.split('\n'): the text between consecutive line breaks
SplitLines(s) ==
    LET nl == {p \in 1..Len(s) : s[p] = NL}
        n == Cardinality(nl)
        NthBreak(k) == CHOOSE p \in nl : Cardinality({q \in nl : q < p}) = k - 1
        from(k) == IF k = 1 THEN 1 ELSE NthBreak(k - 1) + 1
        to(k) == IF k = n + 1 THEN Len(s) ELSE NthBreak(k) - 1
    IN [k \in 1..(n + 1) |-> SubSeq(s, from(k), to(k))]

\* String.prototype.trim
RECURSIVE TrimLeft(_)
TrimLeft(s) == IF s # <<>> /\ Head(s) \in (WS \cup {NL}) THEN TrimLeft(Tail(s)) ELSE s

RECURSIVE TrimRight(_)
TrimRight(s) ==
    IF s # <<>> /\ s[Len(s)] \in (WS \cup {NL}) THEN TrimRight(SubSeq(s, 1, Len(s) - 1)) ELSE s

Trim(s) == TrimRight(TrimLeft(s))

\* ---------------------------------------------------------------------
\* Lexer
\* ---------------------------------------------------------------------
Token(type, value, line, startCol, endCol) ==
    [type |-> type, value |-> value, line |-> line, startCol |-> startCol, endCol |-> endCol]

singleCharTokens(ch) ==
    CASE ch = "{" -> "OPEN_BRACE"
      [] ch = "}" -> "CLOSE_BRACE"
      [] ch = "," -> "COMMA"
      [] ch = ";" -> "SEMICOLON"
      [] ch = "*" -> "STAR"
      [] ch = "(" -> "OPEN_PAREN"
      [] ch = ")" -> "CLOSE_PAREN"
      [] OTHER -> "NONE"

keywordMap(ident) ==
    CASE ident = kwUse -> "USE"
      [] ident = kwPub -> "PUB"
      [] ident = kwAs -> "AS"
      [] ident = kwSelf -> "SELF"
      [] ident = kwCrate -> "CRATE"
      [] ident = kwSuper -> "SUPER"
      [] ident = kwIn -> "IN"
      [] OTHER -> "IDENTIFIER"

\* first 0-based position >= pos that does not hold an identifier character
RECURSIVE IdentEnd(_, _)
IdentEnd(input, pos) ==
    IF pos < Len(input) /\ input[pos + 1] \in IdentChars THEN IdentEnd(input, pos + 1) ELSE pos

RECURSIVE tokenizeFrom(_, _, _, _, _)
tokenizeFrom(input, pos, line, lineStartPos, tokens) ==
    IF pos >= Len(input) THEN tokens
    ELSE LET ch == input[pos + 1] IN
      IF ch = NL THEN tokenizeFrom(input, pos + 1, line + 1, pos + 1, tokens)
      ELSE IF ch \in WS THEN tokenizeFrom(input, pos + 1, line, lineStartPos, tokens)
      ELSE IF StartsWithAt(input, pos, sColons) THEN
        tokenizeFrom(input, pos + 2, line, lineStartPos,
            Append(tokens, Token("DOUBLE_COLON", sColons, line,
                                 pos - lineStartPos, pos - lineStartPos + 2)))
      ELSE IF singleCharTokens(ch) # "NONE" THEN
        tokenizeFrom(input, pos + 1, line, lineStartPos,
            Append(tokens, Token(singleCharTokens(ch), <<ch>>, line,
                                 pos - lineStartPos, pos - lineStartPos + 1)))
      ELSE IF ch \in IdentStartChars THEN
        LET e == IdentEnd(input, pos)
            ident == Slice(input, pos, e)
        IN tokenizeFrom(input, e, line, lineStartPos,
               Append(tokens, Token(keywordMap(ident), ident, line,
                                    pos - lineStartPos, e - lineStartPos)))
      ELSE tokenizeFrom(input, pos + 1, line, lineStartPos, tokens)

tokenize(input) == tokenizeFrom(input, 0, 0, 0, <<>>)

\* ---------------------------------------------------------------------
\* Tree parser (UseTreeParser).  Each method returns [ok, pos, val]; ok =
\* FALSE is the thrown Error, which propagates to the caller.
\* ---------------------------------------------------------------------
Pos(line, column) == [line |-> line, column |-> column]
Range(sl, sc, el, ec) == [start |-> Pos(sl, sc), end |-> Pos(el, ec)]
ZeroRange == Range(0, 0, 0, 0)

Segment(name, alias, range) == [name |-> name, alias |-> alias, range |-> range]
Tree(segment, children, isGlob) ==
    [segment |-> segment, children |-> children, isGlob |-> isGlob, isSelf |-> FALSE]

tokenToRange(token, baseLine, baseCol) ==
    Range(baseLine + token.line, baseCol + token.startCol,
          baseLine + token.line, baseCol + token.endCol)

\* this.current()?.type === type
match(tokens, pos, type) == pos < Len(tokens) /\ tokens[pos + 1].type = type

Fail(pos) == [ok |-> FALSE, pos |-> pos, val |-> <<>>]
Ok(pos, val) == [ok |-> TRUE, pos |-> pos, val |-> val]

\* expect(type): advance, throw unless the token has the type
expect(tokens, pos, type) ==
    IF match(tokens, pos, type) THEN Ok(pos + 1, tokens[pos + 1]) ELSE Fail(pos + 1)

\* values of the tokens from pos up to the next ')' or the end of input
RECURSIVE visPathEnd(_, _)
visPathEnd(tokens, pos) ==
    IF ~match(tokens, pos, "CLOSE_PAREN") /\ pos < Len(tokens)
    THEN visPathEnd(tokens, pos + 1) ELSE pos

parseVisibility(tokens, pos) ==
    IF ~match(tokens, pos, "PUB") THEN Ok(pos, <<>>)
    ELSE IF ~match(tokens, pos + 1, "OPEN_PAREN") THEN Ok(pos + 1, kwPub)
    ELSE LET p == pos + 2 IN
      IF match(tokens, p, "IN") THEN
        LET e == visPathEnd(tokens, p + 1)
            path == FlatConcat([k \in 1..(e - (p + 1)) |-> tokens[p + 1 + k].value])
            close == expect(tokens, e, "CLOSE_PAREN")
        IN IF close.ok
           THEN Ok(close.pos, kwPub \o <<"(">> \o kwIn \o <<" ">> \o path \o <<")">>)
           ELSE Fail(close.pos)
      ELSE
        LET inner == IF p < Len(tokens) THEN tokens[p + 1].value ELSE <<>>
            close == expect(tokens, p + 1, "CLOSE_PAREN")
        IN IF close.ok
           THEN Ok(close.pos, kwPub \o <<"(">> \o inner \o <<")">>)
           ELSE Fail(close.pos)

\* optional `as <token>` after a segment: [pos, alias]
parseAlias(tokens, pos) ==
    IF match(tokens, pos, "AS")
    THEN [pos |-> pos + 2,
          alias |-> IF pos + 1 < Len(tokens) THEN tokens[pos + 2].value ELSE <<>>]
    ELSE [pos |-> pos, alias |-> <<>>]

parseSegment(tokens, pos, baseLine, baseCol) ==
    IF pos >= Len(tokens) THEN Fail(pos + 1)
    ELSE LET token == tokens[pos + 1]
             a == parseAlias(tokens, pos + 1)
         IN Ok(a.pos, Segment(token.value, a.alias, <<tokenToRange(token, baseLine, baseCol)>>))

RECURSIVE parseUseTree(_, _, _, _)
RECURSIVE parseUseTreeList(_, _, _, _, _)

parseUseTree(tokens, pos, baseLine, baseCol) ==
    IF pos >= Len(tokens) THEN Fail(pos)
    ELSE LET token == tokens[pos + 1] IN
      IF token.type = "STAR" THEN
        Ok(pos + 1, Tree(Segment(sStar, <<>>, <<tokenToRange(token, baseLine, baseCol)>>),
                         <<>>, TRUE))
      ELSE IF token.type = "SELF" THEN
        LET a == parseAlias(tokens, pos + 1)
        IN Ok(a.pos, Tree(Segment(kwSelf, a.alias, <<tokenToRange(token, baseLine, baseCol)>>),
                          <<>>, FALSE))
      ELSE
        LET seg == parseSegment(tokens, pos, baseLine, baseCol) IN
        IF ~seg.ok THEN Fail(seg.pos)
        ELSE IF ~match(tokens, seg.pos, "DOUBLE_COLON") THEN
          Ok(seg.pos, Tree(seg.val, <<>>, FALSE))
        ELSE LET p == seg.pos + 1 IN
          IF match(tokens, p, "OPEN_BRACE") THEN
            LET list == parseUseTreeList(tokens, p + 1, baseLine, baseCol, <<>>) IN
            IF ~list.ok THEN Fail(list.pos)
            ELSE LET close == expect(tokens, list.pos, "CLOSE_BRACE") IN
              IF close.ok THEN Ok(close.pos, Tree(seg.val, list.val, FALSE))
              ELSE Fail(close.pos)
          ELSE IF match(tokens, p, "STAR") THEN
            Ok(p + 1, Tree(seg.val,
                  << Tree(Segment(sStar, <<>>, <<tokenToRange(tokens[p + 1], baseLine, baseCol)>>),
                          <<>>, TRUE) >>, FALSE))
          ELSE
            LET child == parseUseTree(tokens, p, baseLine, baseCol) IN
            IF child.ok THEN Ok(child.pos, Tree(seg.val, <<child.val>>, FALSE))
            ELSE Fail(child.pos)

parseUseTreeList(tokens, pos, baseLine, baseCol, trees) ==
    IF ~match(tokens, pos, "CLOSE_BRACE") /\ pos < Len(tokens) THEN
      LET t == parseUseTree(tokens, pos, baseLine, baseCol) IN
      IF ~t.ok THEN Fail(t.pos)
      ELSE IF match(tokens, t.pos, "COMMA")
           THEN parseUseTreeList(tokens, t.pos + 1, baseLine, baseCol, Append(trees, t.val))
           ELSE Ok(t.pos, Append(trees, t.val))
    ELSE Ok(pos, trees)

\* UseTreeParser.parse: [ok, pos, visibility, tree]
parse(tokens, baseLine, baseCol) ==
    LET vis == parseVisibility(tokens, 0) IN
    IF ~vis.ok THEN [ok |-> FALSE, pos |-> vis.pos, visibility |-> <<>>, tree |-> <<>>]
    ELSE LET p == IF match(tokens, vis.pos, "USE") THEN vis.pos + 1 ELSE vis.pos
             t == parseUseTree(tokens, p, baseLine, baseCol)
         IN [ok |-> t.ok, pos |-> t.pos, visibility |-> vis.val, tree |-> t.val]

Statement(visibility, tree, attributes, range, blockId) ==
    [visibility |-> visibility, tree |-> tree, attributes |-> attributes,
     range |-> range, blockId |-> blockId]

NoBlock == -1

\* parseUseStatement: [ok, stmt]
parseUseStatement(useStr, attributes, range) ==
    LET r == parse(tokenize(useStr), range.start.line, range.start.column) IN
    [ok |-> r.ok,
     stmt |-> Statement(r.visibility, r.tree, attributes, range, NoBlock)]

getRootPath(tree) == tree.segment.name

\* flattenUseTree of the parser: the import paths of a tree
RECURSIVE flattenUseTree(_, _)
flattenUseTree(tree, prefix) ==
    IF tree.segment.name = kwSelf THEN <<prefix>>
    ELSE LET currentPath == Append(prefix, tree.segment.name) IN
      IF tree.isGlob \/ tree.children = <<>> THEN <<currentPath>>
      ELSE FlatConcat([k \in 1..Len(tree.children) |->
                          flattenUseTree(tree.children[k], currentPath)])

\* ---------------------------------------------------------------------
\* String.prototype.localeCompare (default collation): primary comparison
\* ignoring case, punctuation before digits before letters; on a primary
\* tie the first case difference decides, lower case first.
\* ---------------------------------------------------------------------
LowerSeq == <<"a","b","c","d","e","f","g","h","i","j","k","l","m",
              "n","o","p","q","r","s","t","u","v","w","x","y","z">>
UpperSeq == <<"A","B","C","D","E","F","G","H","I","J","K","L","M",
              "N","O","P","Q","R","S","T","U","V","W","X","Y","Z">>
PunctSeq == <<" ", "_", ",", ";", ":", "(", ")", "{", "}", "*", "#", "[", "]">>
DigitSeq == <<"0","1","2","3","4","5","6","7","8","9">>

IndexIn(seq, ch) == CHOOSE k \in 1..Len(seq) : seq[k] = ch

PrimaryRank(ch) ==
    IF ch \in LowerChars THEN 100 + IndexIn(LowerSeq, ch)
    ELSE IF ch \in UpperChars THEN 100 + IndexIn(UpperSeq, ch)
    ELSE IF ch \in DigitChars THEN 50 + IndexIn(DigitSeq, ch)
    ELSE IF \E k \in 1..Len(PunctSeq) : PunctSeq[k] = ch THEN IndexIn(PunctSeq, ch)
    ELSE 0

CaseRank(ch) == IF ch \in UpperChars THEN 1 ELSE 0

RECURSIVE CompareBy(_, _, _)
CompareBy(rank(_), a, b) ==
    IF a = <<>> /\ b = <<>> THEN 0
    ELSE IF a = <<>> THEN -1
    ELSE IF b = <<>> THEN 1
    ELSE IF rank(Head(a)) < rank(Head(b)) THEN -1
    ELSE IF rank(Head(a)) > rank(Head(b)) THEN 1
    ELSE CompareBy(rank, Tail(a), Tail(b))

localeCompare(a, b) ==
    LET p == CompareBy(PrimaryRank, a, b) IN
    IF p # 0 THEN p ELSE CompareBy(CaseRank, a, b)

\* Array.prototype.sort is stable: insertion sort by a comparator
RECURSIVE InsertSorted(_, _, _)
InsertSorted(cmp(_, _), sorted, x) ==
    IF sorted = <<>> THEN <<x>>
    ELSE IF cmp(sorted[Len(sorted)], x) <= 0 THEN Append(sorted, x)
    ELSE Append(InsertSorted(cmp, SubSeq(sorted, 1, Len(sorted) - 1), x), sorted[Len(sorted)])

RECURSIVE SortFrom(_, _, _)
SortFrom(cmp(_, _), xs, acc) ==
    IF xs = <<>> THEN acc ELSE SortFrom(cmp, Tail(xs), InsertSorted(cmp, acc, Head(xs)))

StableSort(cmp(_, _), xs) == SortFrom(cmp, xs, <<>>)

\* ---------------------------------------------------------------------
\* Flatten (expandToFlatImports) and merge of flat imports
\* ---------------------------------------------------------------------
FlatImport(path, alias, isGlob, spans) ==
    [path |-> path, alias |-> alias, isGlob |-> isGlob, spans |-> spans]

RECURSIVE expandToFlatImports(_, _, _)
expandToFlatImports(tree, prefix, prefixSpans) ==
    LET spansHere == prefixSpans \o tree.segment.range IN
    IF tree.segment.name = kwSelf THEN
      << FlatImport(Append(prefix, kwSelf), tree.segment.alias, FALSE, spansHere) >>
    ELSE IF tree.isGlob THEN
      << FlatImport(Append(prefix, sStar), <<>>, TRUE, spansHere) >>
    ELSE LET currentPath == Append(prefix, tree.segment.name) IN
      IF tree.children = <<>> THEN
        << FlatImport(Append(currentPath, <<>>), tree.segment.alias, FALSE, spansHere) >>
      ELSE FlatConcat([k \in 1..Len(tree.children) |->
                          expandToFlatImports(tree.children[k], currentPath, spansHere)])

\* a key made of the first two path segments only
getFlatImportKeyOfPrefix(imp) ==
    Join(SubSeq(imp.path, 1, IF Len(imp.path) > 2 THEN 2 ELSE Len(imp.path)), sColons)
      \o (IF imp.isGlob THEN sColons \o sStar ELSE <<>>)

getFlatImportKey(imp) ==
    Join(imp.path, sColons) \o (IF imp.isGlob THEN sColons \o sStar ELSE <<>>)

\* an alias merge in which a missing alias never replaces `_`
mergeAliasKeepingExisting(existing, incoming) ==
    IF incoming = <<>> THEN existing
    ELSE IF incoming = sUnderscore THEN existing
    ELSE incoming

mergeAlias(existing, incoming) ==
    IF incoming = <<>> THEN (IF existing = sUnderscore THEN <<>> ELSE existing)
    ELSE IF incoming = sUnderscore THEN existing
    ELSE incoming

\* the Map byKey as the list of its values in insertion order
RECURSIVE mergeFlatInto(_, _)
mergeFlatInto(byKey, imports) ==
    IF imports = <<>> THEN byKey
    ELSE LET imp == Head(imports)
             key == getFlatImportKey(imp)
             hit == {k \in 1..Len(byKey) : getFlatImportKey(byKey[k]) = key}
         IN IF hit = {} THEN mergeFlatInto(Append(byKey, imp), Tail(imports))
            ELSE LET k == CHOOSE k \in hit : TRUE
                     existing == byKey[k]
                     upd == [existing EXCEPT
                               !.alias = mergeAlias(existing.alias, imp.alias),
                               !.isGlob = existing.isGlob \/ imp.isGlob]
                 IN mergeFlatInto([byKey EXCEPT ![k] = upd], Tail(imports))

mergeFlatImports(imports) == mergeFlatInto(<<>>, imports)

\* ---------------------------------------------------------------------
\* buildUseTree: prefix trie of the flat imports, then nodeToUseTree.
\* A TreeNode's children Map is the list of its values in insertion order.
\* ---------------------------------------------------------------------
TreeNode(name, alias, children, isGlob) ==
    [name |-> name, alias |-> alias, children |-> children, isGlob |-> isGlob]

ChildIndex(node, name) ==
    LET hit == {k \in 1..Len(node.children) : node.children[k].name = name}
    IN IF hit = {} THEN 0 ELSE CHOOSE k \in hit : TRUE

\* the walk `for (let i = 1; i < imp.path.length; i++)` from index i (0-based)
RECURSIVE insertPath(_, _, _)
insertPath(current, imp, i) ==
    IF i >= Len(imp.path) THEN current
    ELSE LET segment == imp.path[i + 1]
             k == ChildIndex(current, segment)
             child0 == IF k = 0 THEN TreeNode(segment, <<>>, <<>>, FALSE)
                       ELSE current.children[k]
             isLast == (i = Len(imp.path) - 1)
             child1 == IF isLast
                       THEN [child0 EXCEPT
                               !.alias = IF imp.alias # <<>> THEN imp.alias ELSE @,
                               !.isGlob = IF imp.isGlob THEN TRUE ELSE @]
                       ELSE child0
             child2 == insertPath(child1, imp, i + 1)
         IN [current EXCEPT
               !.children = IF k = 0 THEN Append(@, child2) ELSE [@ EXCEPT ![k] = child2]]

insertImport(rootNode, imp) ==
    LET walked == insertPath(rootNode, imp, 1) IN
    IF Len(imp.path) = 1
    THEN [walked EXCEPT !.alias = IF imp.alias # <<>> THEN imp.alias ELSE @,
                        !.isGlob = IF imp.isGlob THEN TRUE ELSE @]
    ELSE walked

RECURSIVE insertAll(_, _)
insertAll(rootNode, imports) ==
    IF imports = <<>> THEN rootNode
    ELSE insertAll(insertImport(rootNode, Head(imports)), Tail(imports))

CompareNodeNames(a, b) == localeCompare(a.name, b.name)

\* alias carried by the synthesized `self` child of a node
SelfChildAlias(selfChild, terminalChild) ==
    IF selfChild # <<>> THEN selfChild[1].alias ELSE <<>>

\* a `self` child only where the input wrote `self`
addsSelfChildWhenWritten(selfChild, terminalChild, otherChildren, hasGlob) ==
    selfChild # <<>>

\* the condition under which a node gets a `self` child
addsSelfChild(selfChild, terminalChild, otherChildren, hasGlob) ==
    selfChild # <<>> \/ (terminalChild # <<>> /\ (otherChildren # <<>> \/ hasGlob))

RECURSIVE nodeToUseTree(_)
nodeToUseTree(node) ==
    LET plain == Tree(Segment(node.name, node.alias, <<>>), <<>>, FALSE)
        kt == ChildIndex(node, <<>>)
        ks == ChildIndex(node, kwSelf)
        terminalChild == IF kt = 0 THEN <<>> ELSE <<node.children[kt]>>
        selfChild == IF ks = 0 THEN <<>> ELSE <<node.children[ks]>>
        rest == SelectSeq(node.children, LAMBDA c : c.name # <<>> /\ c.name # kwSelf)
        hasGlob == \E k \in 1..Len(rest) : rest[k].isGlob
        otherChildren == SelectSeq(rest, LAMBDA c : ~c.isGlob)
    IN
    IF node.isGlob THEN [plain EXCEPT !.isGlob = TRUE]
    ELSE IF terminalChild # <<>> /\ selfChild = <<>> /\ otherChildren = <<>> /\ ~hasGlob THEN
      IF terminalChild[1].alias # <<>>
      THEN [plain EXCEPT !.segment.alias = terminalChild[1].alias] ELSE plain
    ELSE IF selfChild # <<>> /\ terminalChild = <<>> /\ otherChildren = <<>> /\ ~hasGlob THEN
      IF selfChild[1].alias # <<>>
      THEN [plain EXCEPT !.segment.alias = selfChild[1].alias] ELSE plain
    ELSE IF node.children = <<>> THEN plain
    ELSE
      LET selfPart ==
            IF addsSelfChild(selfChild, terminalChild, otherChildren, hasGlob)
            THEN << Tree(Segment(kwSelf, SelfChildAlias(selfChild, terminalChild), <<>>),
                         <<>>, FALSE) >>
            ELSE <<>>
          sortedOthers == StableSort(CompareNodeNames, otherChildren)
          otherPart == [k \in 1..Len(sortedOthers) |-> nodeToUseTree(sortedOthers[k])]
          globPart == IF hasGlob
                      THEN << Tree(Segment(sStar, <<>>, <<>>), <<>>, TRUE) >>
                      ELSE <<>>
      IN [plain EXCEPT !.children = selfPart \o otherPart \o globPart]

\* buildUseTree: the empty list for null, else a one-element list
buildUseTree(imports) ==
    IF imports = <<>> THEN <<>>
    ELSE << nodeToUseTree(insertAll(TreeNode(imports[1].path[1], <<>>, <<>>, FALSE), imports)) >>

\* ---------------------------------------------------------------------
\* mergeUseStatements / mergeGroupedStatements
\* ---------------------------------------------------------------------
\* a Map from key to list of statements, as the list of its entries
\* [key, items] in insertion order
RECURSIVE groupByKey(_, _, _)
groupByKey(keyOf(_), items, groups) ==
    IF items = <<>> THEN groups
    ELSE LET x == Head(items)
             hit == {k \in 1..Len(groups) : groups[k].key = keyOf(x)}
         IN IF hit = {}
            THEN groupByKey(keyOf, Tail(items),
                            Append(groups, [key |-> keyOf(x), items |-> <<x>>]))
            ELSE LET k == CHOOSE k \in hit : TRUE
                 IN groupByKey(keyOf, Tail(items),
                               [groups EXCEPT ![k].items = Append(@, x)])

SeqMin(xs) == CHOOSE m \in {xs[k] : k \in 1..Len(xs)} : \A k \in 1..Len(xs) : m <= xs[k]
SeqMax(xs) == CHOOSE m \in {xs[k] : k \in 1..Len(xs)} : \A k \in 1..Len(xs) : m >= xs[k]

\* Array.prototype.find: the first element satisfying the test
FindFirst(xs, test(_)) == xs[CHOOSE k \in 1..Len(xs) :
                               test(xs[k]) /\ \A j \in 1..(k - 1) : ~test(xs[j])]

StmtRootKey(stmt) == getRootPath(stmt.tree)

\* the body of the loop `for (const [, groupStmts] of groups)`
mergeGroup(groupStmts) ==
    LET firstStmt == groupStmts[1]
        flatImports == FlatConcat([k \in 1..Len(groupStmts) |->
                          expandToFlatImports(groupStmts[k].tree, <<>>, <<>>)])
        mergedFlat == mergeFlatImports(flatImports)
        mergedTree == buildUseTree(mergedFlat)
        minStartLine == SeqMin([k \in 1..Len(groupStmts) |-> groupStmts[k].range.start.line])
        maxEndLine == SeqMax([k \in 1..Len(groupStmts) |-> groupStmts[k].range.end.line])
        firstOnMinLine == FindFirst(groupStmts, LAMBDA st : st.range.start.line = minStartLine)
        lastOnMaxLine == FindFirst(groupStmts, LAMBDA st : st.range.end.line = maxEndLine)
        attributes == IF Len(groupStmts) = 1 THEN firstStmt.attributes ELSE <<>>
    IN IF mergedTree = <<>> THEN <<>>
       ELSE << Statement(firstStmt.visibility, mergedTree[1], attributes,
                         Range(minStartLine, firstOnMinLine.range.start.column,
                               maxEndLine, lastOnMaxLine.range.end.column),
                         NoBlock) >>

mergeUseStatements(statements) ==
    LET groups == groupByKey(StmtRootKey, statements, <<>>)
    IN FlatConcat([k \in 1..Len(groups) |-> mergeGroup(groups[k].items)])

\* a grouping key that ignores the visibility
StmtVisibilityKeyIgnored(stmt) == <<>>

StmtVisibilityKey(stmt) == stmt.visibility

mergeGroupedStatements(statements) ==
    LET byVisibility == groupByKey(StmtVisibilityKey, statements, <<>>)
    IN FlatConcat([k \in 1..Len(byVisibility) |-> mergeUseStatements(byVisibility[k].items)])

\* ---------------------------------------------------------------------
\* Removal of unused imports (filterUnusedImports)
\* ---------------------------------------------------------------------
rangeContainedInSpans(diagRange, spans) ==
    \E k \in 1..Len(spans) :
      LET span == spans[k]
          startContained ==
            \/ diagRange.start.line > span.start.line
            \/ /\ diagRange.start.line = span.start.line
               /\ diagRange.start.column >= span.start.column
          endContained ==
            \/ diagRange.end.line < span.end.line
            \/ /\ diagRange.end.line = span.end.line
               /\ diagRange.end.column <= span.end.column
      IN startContained /\ endContained

isUnusedByDiagnostics(flat, diagnostics) ==
    \E d \in 1..Len(diagnostics) : rangeContainedInSpans(diagnostics[d].range, flat.spans)

\* the flat imports of one statement that survive the diagnostics
filterFlats(flats, unusedDiagnostics) ==
    LET pathHasUnderscore(fullPath) ==
          \E k \in 1..Len(flats) :
            flats[k].alias = sUnderscore /\ Join(flats[k].path, sColons) = fullPath
        keeps(flat) ==
          IF isUnusedByDiagnostics(flat, unusedDiagnostics)
          THEN flat.alias # sUnderscore /\ pathHasUnderscore(Join(flat.path, sColons))
          ELSE TRUE
    IN SelectSeq(flats, keeps)

filterUnusedImports(imports, unusedDiagnostics) ==
    IF unusedDiagnostics = <<>> THEN imports
    ELSE FlatConcat([k \in 1..Len(imports) |->
           LET filtered == filterFlats(expandToFlatImports(imports[k].tree, <<>>, <<>>),
                                       unusedDiagnostics)
               newTree == buildUseTree(filtered)
           IN IF filtered = <<>> \/ newTree = <<>> THEN <<>>
              ELSE << [imports[k] EXCEPT !.tree = newTree[1]] >>])

needsBraces(tree) ==
    IF tree.children = <<>> THEN FALSE
    ELSE IF Len(tree.children) = 1
         THEN tree.children[1].segment.name = kwSelf \/ tree.children[1].isGlob
         ELSE Len(tree.children) > 1

\* ---------------------------------------------------------------------
\* Sorter
\* ---------------------------------------------------------------------
CompareChildren(a, b) ==
    IF a.isSelf /\ ~b.isSelf THEN -1
    ELSE IF ~a.isSelf /\ b.isSelf THEN 1
    ELSE IF a.isGlob /\ ~b.isGlob THEN 1
    ELSE IF ~a.isGlob /\ b.isGlob THEN -1
    ELSE localeCompare(a.segment.name, b.segment.name)

RECURSIVE sortUseTree(_)
sortUseTree(tree) ==
    IF tree.children = <<>> THEN tree
    ELSE [tree EXCEPT !.children =
            StableSort(CompareChildren, [k \in 1..Len(tree.children) |-> sortUseTree(tree.children[k])])]

RECURSIVE getFullPath(_)
getFullPath(tree) ==
    IF tree.children # <<>>
    THEN tree.segment.name \o sColons \o getFullPath(sortUseTree(tree).children[1])
    ELSE tree.segment.name

compareUseStatements(a, b) == localeCompare(getFullPath(a.tree), getFullPath(b.tree))

sortUseStatements(statements) == StableSort(compareUseStatements, statements)

\* ---------------------------------------------------------------------
\* Formatter
\* ---------------------------------------------------------------------
sAs == <<" ">> \o kwAs \o <<" ">>
sIndent == <<" ", " ", " ", " ">>

RECURSIVE formatUseTree(_, _)
RECURSIVE formatBracedChildren(_, _)

formatUseTree(tree, indent) ==
    IF tree.isGlob THEN sStar
    ELSE IF tree.isSelf THEN
      (IF tree.segment.alias # <<>> THEN kwSelf \o sAs \o tree.segment.alias ELSE kwSelf)
    ELSE
      LET head == tree.segment.name \o
                  (IF tree.segment.alias # <<>> THEN sAs \o tree.segment.alias ELSE <<>>)
      IN IF tree.children = <<>> THEN head
         ELSE LET sortedTree == sortUseTree(tree) IN
           IF Len(sortedTree.children) = 1
           THEN head \o sColons \o formatUseTree(sortedTree.children[1], indent)
           ELSE head \o sColons \o formatBracedChildren(sortedTree.children, indent)

formatBracedChildren(children, indent) ==
    LET childIndent == indent \o sIndent
        lines == <<<<"{">>>> \o
                 [k \in 1..Len(children) |->
                     childIndent \o formatUseTree(children[k], childIndent) \o <<",">>] \o
                 << indent \o <<"}">> >>
    IN Join(lines, <<NL>>)

\* a statement rendering that leaves out the alias of a single path
formatUseStatementWithoutAlias(stmt) ==
    LET sortedTree == sortUseTree(stmt.tree)
        body == IF sortedTree.children # <<>> THEN
                  sortedTree.segment.name \o sColons \o
                  (IF Len(sortedTree.children) = 1
                   THEN formatUseTree(sortedTree.children[1], <<>>)
                   ELSE formatBracedChildren(sortedTree.children, <<>>))
                ELSE sortedTree.segment.name
        useStr == (IF stmt.visibility # <<>> THEN stmt.visibility \o <<" ">> ELSE <<>>) \o
                  kwUse \o <<" ">> \o body \o <<";">>
    IN Join(stmt.attributes \o <<useStr>>, <<NL>>)

formatUseStatement(stmt) ==
    LET sortedTree == sortUseTree(stmt.tree)
        body == IF sortedTree.children # <<>> THEN
                  sortedTree.segment.name \o sColons \o
                  (IF Len(sortedTree.children) = 1
                   THEN formatUseTree(sortedTree.children[1], <<>>)
                   ELSE formatBracedChildren(sortedTree.children, <<>>))
                ELSE sortedTree.segment.name \o
                  (IF sortedTree.segment.alias # <<>>
                   THEN sAs \o sortedTree.segment.alias ELSE <<>>)
        useStr == (IF stmt.visibility # <<>> THEN stmt.visibility \o <<" ">> ELSE <<>>) \o
                  kwUse \o <<" ">> \o body \o <<";">>
    IN Join(stmt.attributes \o <<useStr>>, <<NL>>)

formatGroupedImports(groups) ==
    Join([g \in 1..Len(groups) |->
            Join([k \in 1..Len(groups[g].imports) |-> formatUseStatement(groups[g].imports[k])],
                 <<NL>>)],
         <<NL, NL>>)

formatImportsForFile(groups) ==
    IF groups = <<>> THEN <<>> ELSE formatGroupedImports(groups) \o <<NL>>

\* ---------------------------------------------------------------------
\* File scanner (parseRustFile).  Line indices and columns are 0-based.
\* ---------------------------------------------------------------------
sAttr == <<"#", "[">>
sInnerAttr == <<"#", "!", "[">>
sComment == <<"/", "/">>

RECURSIVE SkipWs(_, _)
SkipWs(line, p) == IF p < Len(line) /\ line[p + 1] \in WS THEN SkipWs(line, p + 1) ELSE p

\* `use\s+` at column p
UseKeywordAt(line, p) ==
    StartsWithAt(line, p, kwUse) /\ p + 3 < Len(line) /\ line[p + 4] \in WS

\* /(pub\s*(\([^)]*\))?\s*)?use\s+/ matching at column p
UseMatchAt(line, p) ==
    \/ UseKeywordAt(line, p)
    \/ /\ StartsWithAt(line, p, kwPub)
       /\ LET q == SkipWs(line, p + 3) IN
          \/ UseKeywordAt(line, q)
          \/ /\ q < Len(line) /\ line[q + 1] = "("
             /\ \E r \in (q + 1)..(Len(line) - 1) :
                  /\ line[r + 1] = ")"
                  /\ \A j \in (q + 1)..(r - 1) : line[j + 1] # ")"
                  /\ UseKeywordAt(line, SkipWs(line, r + 1))

\* line.match(...) is not null
useMatch(line) == \E p \in 0..(Len(line) - 1) : UseMatchAt(line, p)

findUseStartInLine(line) ==
    IF useMatch(line)
    THEN CHOOSE p \in 0..(Len(line) - 1) :
           UseMatchAt(line, p) /\ \A j \in 0..(p - 1) : ~UseMatchAt(line, j)
    ELSE 0

RECURSIVE findUseEndInLine(_, _, _)
findUseEndInLine(line, col, count) ==
    IF col >= Len(line) THEN [endCol |-> -1, braceCount |-> count]
    ELSE LET ch == line[col + 1] IN
      IF ch = "{" THEN findUseEndInLine(line, col + 1, count + 1)
      ELSE IF ch = "}" THEN findUseEndInLine(line, col + 1, count - 1)
      ELSE IF ch = ";" /\ count = 0 THEN [endCol |-> col + 1, braceCount |-> count]
      ELSE findUseEndInLine(line, col + 1, count)

\* the backward walk shared by extractAttributes and findStartLine
RECURSIVE extractAttributesFrom(_, _, _)
extractAttributesFrom(lines, i, attributes) ==
    IF i < 0 THEN attributes
    ELSE LET line == Trim(lines[i + 1]) IN
      IF StartsWith(line, sAttr) THEN extractAttributesFrom(lines, i - 1, <<line>> \o attributes)
      ELSE IF line = <<>> \/ StartsWith(line, sComment)
           THEN extractAttributesFrom(lines, i - 1, attributes)
           ELSE attributes

extractAttributes(lines, useLineIndex) == extractAttributesFrom(lines, useLineIndex - 1, <<>>)

RECURSIVE findStartLineFrom(_, _, _)
findStartLineFrom(lines, i, lastAttrLine) ==
    IF i < 0 THEN lastAttrLine
    ELSE LET line == Trim(lines[i + 1]) IN
      IF StartsWith(line, sAttr) THEN findStartLineFrom(lines, i - 1, i)
      ELSE IF line = <<>> \/ StartsWith(line, sComment)
           THEN findStartLineFrom(lines, i - 1, lastAttrLine)
           ELSE lastAttrLine

findStartLine(lines, useLineIndex) == findStartLineFrom(lines, useLineIndex - 1, useLineIndex)

\* the first loop: skip blank lines, comments and `#![` lines
RECURSIVE skipFileHeader(_, _)
skipFileHeader(lines, i) ==
    IF i < Len(lines) /\
       LET line == Trim(lines[i + 1])
       IN line = <<>> \/ StartsWith(line, sComment) \/ StartsWith(line, sInnerAttr)
    THEN skipFileHeader(lines, i + 1) ELSE i

ScanInit(lines) ==
    [i |-> skipFileHeader(lines, 0),
     inUseStatement |-> FALSE,
     currentUseLines |-> <<>>,
     currentUseStartLine |-> 0,
     currentUseStartCol |-> 0,
     braceCount |-> 0,
     currentBlockId |-> 0,
     hasImportsInCurrentBlock |-> FALSE,
     imports |-> <<>>,
     stopped |-> FALSE]

\* try { parseUseStatement; push } catch { skip }, then leave the statement
finishStatement(st, useStr, attributes, range) ==
    LET r == parseUseStatement(useStr, attributes, range) IN
    IF r.ok
    THEN [st EXCEPT !.imports = Append(@, [r.stmt EXCEPT !.blockId = st.currentBlockId]),
                    !.hasImportsInCurrentBlock = TRUE,
                    !.inUseStatement = FALSE,
                    !.currentUseLines = <<>>,
                    !.i = @ + 1]
    ELSE [st EXCEPT !.inUseStatement = FALSE, !.currentUseLines = <<>>, !.i = @ + 1]

\* a comment line never opens a block
startsNewBlockNever(st) == FALSE

\* a comment line opens a block if there were imports before it
startsNewBlock(st) == st.hasImportsInCurrentBlock

\* a line of code never ends the scan
stopsAtCodeNever(st) == FALSE

\* a line of code ends the scan once imports were found
stopsAtCode(st) == Len(st.imports) > 0

\* one iteration of the second loop `while (i < lines.length)`
scanStep(lines, st) ==
    LET i == st.i
        line == lines[i + 1]
        trimmedLine == Trim(line)
    IN
    IF ~st.inUseStatement THEN
      IF trimmedLine = <<>> THEN [st EXCEPT !.i = i + 1]
      ELSE IF StartsWith(trimmedLine, sComment) THEN
        IF startsNewBlock(st)
        THEN [st EXCEPT !.currentBlockId = @ + 1, !.hasImportsInCurrentBlock = FALSE, !.i = i + 1]
        ELSE [st EXCEPT !.i = i + 1]
      ELSE IF StartsWith(trimmedLine, sAttr) THEN [st EXCEPT !.i = i + 1]
      ELSE IF useMatch(line) THEN
        LET startLine == findStartLine(lines, i)
            startCol == findUseStartInLine(line)
            result == findUseEndInLine(line, startCol, 0)
            st1 == [st EXCEPT !.inUseStatement = TRUE,
                              !.currentUseStartLine = startLine,
                              !.currentUseStartCol = startCol,
                              !.braceCount = result.braceCount]
        IN IF result.endCol # -1
           THEN finishStatement(st1, Slice(line, startCol, result.endCol),
                                extractAttributes(lines, i),
                                Range(startLine, startCol, i, result.endCol))
           ELSE [st1 EXCEPT !.currentUseLines = << Slice(line, startCol, Len(line)) >>,
                            !.i = i + 1]
      ELSE IF stopsAtCode(st) THEN [st EXCEPT !.stopped = TRUE]
      ELSE [st EXCEPT !.i = i + 1]
    ELSE
      LET result == findUseEndInLine(line, 0, st.braceCount)
          st1 == [st EXCEPT !.braceCount = result.braceCount]
      IN IF result.endCol # -1
         THEN finishStatement(st1,
                  Join(Append(st.currentUseLines, Slice(line, 0, result.endCol)), <<NL>>),
                  extractAttributes(lines, st.currentUseStartLine),
                  Range(st.currentUseStartLine, st.currentUseStartCol, i, result.endCol))
         ELSE [st1 EXCEPT !.currentUseLines = Append(@, line), !.i = i + 1]

ScanDone(lines, st) == st.stopped \/ st.i >= Len(lines)

RECURSIVE scanLoop(_, _)
scanLoop(lines, st) == IF ScanDone(lines, st) THEN st ELSE scanLoop(lines, scanStep(lines, st))

\* the tail of parseRustFile: importsRange and hasBlankLineAfterImports
scanResult(lines, imports) ==
    LET n == Len(imports) IN
    [imports |-> imports,
     importsRange |-> IF n > 0
                      THEN << [start |-> imports[1].range.start, end |-> imports[n].range.end] >>
                      ELSE <<>>,
     hasBlankLineAfterImports |->
        IF n = 0 THEN TRUE
        ELSE LET lastLine == imports[n].range.end.line
                 lastCol == imports[n].range.end.column
             IN IF lastCol < Len(lines[lastLine + 1]) THEN TRUE
                ELSE IF lastLine + 1 < Len(lines) THEN Trim(lines[lastLine + 2]) = <<>>
                ELSE TRUE]

parseRustFile(content) ==
    LET lines == SplitLines(content)
    IN scanResult(lines, scanLoop(lines, ScanInit(lines)).imports)

\* ---------------------------------------------------------------------
\* Grouper
\* ---------------------------------------------------------------------
CatStd == "Std"
CatExternal == "External"
CatInternal == "Internal"
CatAttributed == "Attributed"

Chars(str) == [k \in 1..Len(str) |-> SubSeq(str, k, k)]

normalizeCrateName(name) == [k \in 1..Len(name) |-> IF name[k] = "-" THEN "_" ELSE name[k]]

isDependency(crateName, cargoDeps) ==
    LET normalized == normalizeCrateName(crateName) IN
    \/ normalized \in cargoDeps.dependencies
    \/ normalized \in cargoDeps.devDependencies
    \/ normalized \in cargoDeps.buildDependencies

\* a standard-library test that leaves out `alloc`
isStdLibraryWithoutAlloc(crateName) == crateName \in {Chars("std"), Chars("core")}

isStdLibrary(crateName) == crateName \in {Chars("std"), Chars("core"), Chars("alloc")}

isInternalImport(crateName) == crateName \in {kwCrate, kwSuper, kwSelf}

categorizeImport(stmt, cargoDeps) ==
    IF stmt.attributes # <<>> THEN CatAttributed
    ELSE IF isStdLibrary(getRootPath(stmt.tree)) THEN CatStd
    ELSE IF isInternalImport(getRootPath(stmt.tree)) THEN CatInternal
    ELSE IF isDependency(getRootPath(stmt.tree), cargoDeps) THEN CatExternal
    ELSE CatExternal

\* Array.prototype.sort without a comparator: UTF-16 code unit order
\* (the printable ASCII characters in code order, backslash and backtick left out)
AsciiSeq ==
    <<" ", "!", "\"", "#", "$", "%", "&", "'", "(", ")", "*", "+", ",", "-", ".", "/">> \o
    DigitSeq \o <<":", ";", "<", "=", ">", "?", "@">> \o UpperSeq \o
    <<"[", "]", "^", "_">> \o LowerSeq \o <<"{", "|", "}", "~">>

CodeUnitRank(ch) ==
    IF \E k \in 1..Len(AsciiSeq) : AsciiSeq[k] = ch THEN IndexIn(AsciiSeq, ch) ELSE 0

CompareCodeUnits(a, b) == CompareBy(CodeUnitRank, a, b)

\* an attribute key that keeps the written order
getAttributeKeyUnsorted(attributes) ==
    IF attributes = <<>> THEN <<>> ELSE Join(attributes, <<NL>>)

getAttributeKey(attributes) ==
    IF attributes = <<>> THEN <<>>
    ELSE Join(StableSort(CompareCodeUnits, attributes), <<NL>>)

StmtAttributeKey(stmt) == getAttributeKey(stmt.attributes)

groupImports(imports, cargoDeps) ==
    LET ofCategory(c) == SelectSeq(imports, LAMBDA st : categorizeImport(st, cargoDeps) = c)
        plainGroup(c) == IF ofCategory(c) = <<>> THEN <<>>
                         ELSE << [category |-> c, imports |-> ofCategory(c)] >>
        attributedGroups == groupByKey(StmtAttributeKey, ofCategory(CatAttributed), <<>>)
    IN plainGroup(CatStd) \o plainGroup(CatExternal) \o plainGroup(CatInternal) \o
       [k \in 1..Len(attributedGroups) |->
           [category |-> CatAttributed, imports |-> attributedGroups[k].items]]

\* organizeImports: group -> merge -> sort
processGroups(imports, cargoDeps) ==
    LET groups == groupImports(imports, cargoDeps)
    IN [g \in 1..Len(groups) |->
          [category |-> groups[g].category,
           imports |-> sortUseStatements(mergeGroupedStatements(groups[g].imports))]]

NoDeps == [dependencies |-> {}, devDependencies |-> {}, buildDependencies |-> {}]

\* ---------------------------------------------------------------------
\* The grammar of the specification, as a recognizer over token lists:
\*   statement  := visibility? "use" tree ";"
\*   visibility := "pub" ( "(" ( "in" path | token ) ")" )?
\*   tree       := "*" | "self" alias? | segment alias? ( "::" child )?
\*   child      := "{" tree ("," tree)* ","? "}" | "*" | tree
\* Each g-operator returns the position after what it recognized, or -1.
\* ---------------------------------------------------------------------
IsSegmentToken(tokens, pos) ==
    pos < Len(tokens) /\ tokens[pos + 1].type \in {"IDENTIFIER", "CRATE", "SUPER"}

gAlias(tokens, pos) ==
    IF match(tokens, pos, "AS")
    THEN (IF match(tokens, pos + 1, "IDENTIFIER") THEN pos + 2 ELSE -1)
    ELSE pos

RECURSIVE gPath(_, _)
gPath(tokens, pos) ==
    IF ~(IsSegmentToken(tokens, pos) \/ match(tokens, pos, "SELF")) THEN -1
    ELSE IF match(tokens, pos + 1, "DOUBLE_COLON") THEN gPath(tokens, pos + 2)
    ELSE pos + 1

gVisibility(tokens, pos) ==
    IF ~match(tokens, pos, "PUB") THEN pos
    ELSE IF ~match(tokens, pos + 1, "OPEN_PAREN") THEN pos + 1
    ELSE LET inner == IF match(tokens, pos + 2, "IN") THEN gPath(tokens, pos + 3)
                      ELSE IF IsSegmentToken(tokens, pos + 2) \/ match(tokens, pos + 2, "SELF")
                           THEN pos + 3 ELSE -1
         IN IF inner # -1 /\ match(tokens, inner, "CLOSE_PAREN") THEN inner + 1 ELSE -1

RECURSIVE gTree(_, _)
RECURSIVE gList(_, _)

gTree(tokens, pos) ==
    IF match(tokens, pos, "STAR") THEN pos + 1
    ELSE IF match(tokens, pos, "SELF") THEN gAlias(tokens, pos + 1)
    ELSE IF ~IsSegmentToken(tokens, pos) THEN -1
    ELSE LET p == gAlias(tokens, pos + 1) IN
      IF p = -1 THEN -1
      ELSE IF ~match(tokens, p, "DOUBLE_COLON") THEN p
      ELSE IF match(tokens, p + 1, "OPEN_BRACE") THEN gList(tokens, p + 2)
      ELSE IF match(tokens, p + 1, "STAR") THEN p + 2
      ELSE gTree(tokens, p + 1)

gList(tokens, pos) ==
    LET t == gTree(tokens, pos) IN
    IF t = -1 THEN -1
    ELSE IF match(tokens, t, "CLOSE_BRACE") THEN t + 1
    ELSE IF ~match(tokens, t, "COMMA") THEN -1
    ELSE IF match(tokens, t + 1, "CLOSE_BRACE") THEN t + 2
    ELSE gList(tokens, t + 1)

MatchesGrammar(tokens) ==
    LET v == gVisibility(tokens, 0) IN
    /\ v # -1
    /\ match(tokens, v, "USE")
    /\ LET t == gTree(tokens, v + 1)
       IN t # -1 /\ match(tokens, t, "SEMICOLON") /\ t + 1 = Len(tokens)

\* ---------------------------------------------------------------------
\* Inputs
\* ---------------------------------------------------------------------
MaxStmts == 2   \* statements handed to one merge
MaxNodes == 4   \* path segments of a generated statement
MaxLines == 3   \* lines of a scanned file

SeqToSet(s) == {s[k] : k \in 1..Len(s)}

SeqsUpTo(S, n) == UNION {[1..k -> S] : k \in 0..n}

\* statement texts for the merge engine
MergePool ==
    { Chars("use a;"), Chars("use a::T;"), Chars("use a::T as R;"), Chars("use a::T as Q;"),
      Chars("use a::T as _;"), Chars("use a::T::X;"), Chars("use a::T::{self};"),
      Chars("use a::T::{self as R};"), Chars("use a::T::{self as _};"),
      Chars("use a::T::*;"), Chars("use a::*;"), Chars("use a::{T, T::X};"),
      Chars("use a::{T as R, T::X};"), Chars("use a::{T as _, U, T};"),
      Chars("use a::{T as R, T as Q};"), Chars("use a::B;"), Chars("use b::T;"),
      Chars("pub use a::T;"), Chars("pub use a::T::X;") }

\* the statements of a list of texts, one per line from line 0
ParsedAt(texts) ==
    [k \in 1..Len(texts) |->
        parseUseStatement(texts[k], <<>>, Range(k - 1, 0, k - 1, Len(texts[k]))).stmt]

\* grammar-derived statement bodies with exactly n path segments
GenLeaves == { Chars("*"), Chars("self"), Chars("b"), Chars("T as _") }
GenPrefixes == { Chars("a"), Chars("b as R") }

RECURSIVE GenTrees(_, _, _)
RECURSIVE GenLists(_, _, _)

GenTrees(n, sep, trail) ==
    IF n = 1 THEN GenLeaves
    ELSE { p \o sColons \o c :
             p \in GenPrefixes,
             c \in GenTrees(n - 1, sep, trail) \cup
                   { <<"{">> \o l \o trail \o <<"}">> : l \in GenLists(n - 1, sep, trail) } }

GenLists(m, sep, trail) ==
    GenTrees(m, sep, trail) \cup
    UNION { { t \o sep \o l : t \in GenTrees(k, sep, trail), l \in GenLists(m - k, sep, trail) } :
            k \in 1..(m - 1) }

GenStyles ==
    { [vis |-> <<>>, sep |-> Chars(", "), trail |-> <<>>],
      [vis |-> Chars("pub "), sep |-> <<",", NL, " ", " ">>, trail |-> <<",", NL>>],
      [vis |-> Chars("pub(crate) "), sep |-> <<",">>, trail |-> <<",">>] }

ValidTexts ==
    UNION { { st.vis \o kwUse \o <<" ">> \o body \o <<";">> :
                body \in UNION { GenTrees(n, st.sep, st.trail) : n \in 1..MaxNodes } } :
            st \in GenStyles }

\* valid texts with an alias on `self`
SelfAliasTexts ==
    { Chars("use self as R;"), Chars("use a::self as R;"), Chars("use a::{self as R};"),
      Chars("use a::{self as R, b, T as _};"), Chars("pub use a::b::{self as R, T as Q};") }

\* valid texts whose children are written out of order
UnsortedTexts ==
    { Chars("use foo::{*, Bar, self, Aaa};"), Chars("use std::io::{Read, self, Write};"),
      Chars("use std::{io::{Write, Read}, collections::{HashMap, BTreeMap}};") }

\* texts that break the grammar in one place
BrokenTexts ==
    { Chars("a::b;"), Chars("use a::b"), Chars("use a as ;"), Chars("use ::a;"),
      Chars("use a::;"), Chars("use a b;"), Chars("use a::{b, c} d;"), Chars("use self::a;"),
      Chars("use"), <<>>, Chars("use a::{b c};"), Chars("use a::{b;"), Chars("use a as"),
      Chars("pub() use a;"), Chars("pub(crate use a;"), Chars("use a::{};"),
      Chars("use a::{,};"), Chars("use ;") }

\* lines of a scanned file
LinePool ==
    { Chars("use b::c;"), Chars("pub use a::z;"), Chars("pub use b::c;"), Chars("use b::d;"),
      Chars("use std::io;"), Chars("use crate::m;"), Chars("use a::{b;"), Chars("use a"),
      Chars("use a::{b c};"), Chars("// note"), <<>>, Chars("fn main() {}") }

Files == { ls \in SeqsUpTo(LinePool, MaxLines) : ls # <<>> }

\* ---------------------------------------------------------------------
\* Specification of the merge engine: a list of parsed statements is
\* merged (by root, or by visibility and root), or each of its trees is
\* flattened and rebuilt.
\* ---------------------------------------------------------------------
InitMerge ==
    /\ pc = "input"
    /\ src = <<>>
    /\ \E texts \in SeqsUpTo(MergePool, MaxStmts) : stmts = ParsedAt(texts)
    /\ merged = <<>>
    /\ rendered = <<>>
    /\ aux = <<>>

Merge ==
    /\ pc = "input"
    /\ merged' = mergeUseStatements(stmts)
    /\ pc' = "merged"
    /\ UNCHANGED <<src, stmts, rendered, aux>>

MergeGrouped ==
    /\ pc = "input"
    /\ merged' = mergeGroupedStatements(stmts)
    /\ pc' = "mergedGrouped"
    /\ UNCHANGED <<src, stmts, rendered, aux>>

Rebuild ==
    /\ pc = "input"
    /\ aux' = [k \in 1..Len(stmts) |->
                 buildUseTree(expandToFlatImports(stmts[k].tree, <<>>, <<>>))]
    /\ pc' = "rebuilt"
    /\ UNCHANGED <<src, stmts, merged, rendered>>

SortMerged ==
    /\ pc = "mergedGrouped"
    /\ merged' = [k \in 1..Len(merged) |->
                    [merged[k] EXCEPT !.tree = sortUseTree(merged[k].tree)]]
    /\ pc' = "sorted"
    /\ UNCHANGED <<src, stmts, rendered, aux>>

NextMerge == Merge \/ MergeGrouped \/ Rebuild \/ SortMerged

SpecMerge == InitMerge /\ [][NextMerge]_vars

\* ---------------------------------------------------------------------
\* Specification of the parser and formatter: a statement text is parsed,
\* the statement is rendered, and the rendered text is scanned again.
\* ---------------------------------------------------------------------
InitParse ==
    /\ pc = "text"
    /\ src \in ValidTexts \cup SelfAliasTexts \cup UnsortedTexts \cup BrokenTexts
    /\ stmts = <<>>
    /\ merged = <<>>
    /\ rendered = <<>>
    /\ aux = <<>>

ParseStatement ==
    /\ pc = "text"
    /\ aux' = parseUseStatement(src, <<>>, ZeroRange)
    /\ pc' = "parsed"
    /\ UNCHANGED <<src, stmts, merged, rendered>>

RenderStatement ==
    /\ pc = "parsed"
    /\ aux.ok
    /\ rendered' = formatImportsForFile(<< [category |-> categorizeImport(aux.stmt, NoDeps),
                                            imports |-> <<aux.stmt>>] >>)
    /\ pc' = "rendered"
    /\ UNCHANGED <<src, stmts, merged, aux>>

RescanRendered ==
    /\ pc = "rendered"
    /\ merged' = parseRustFile(rendered).imports
    /\ pc' = "rescanned"
    /\ UNCHANGED <<src, stmts, rendered, aux>>

SortTree ==
    /\ pc = "parsed"
    /\ aux.ok
    /\ stmts' = << [aux.stmt EXCEPT !.tree = sortUseTree(aux.stmt.tree)] >>
    /\ pc' = "sorted"
    /\ UNCHANGED <<src, merged, rendered, aux>>

NextParse == ParseStatement \/ RenderStatement \/ RescanRendered \/ SortTree

SpecParse == InitParse /\ [][NextParse]_vars

\* ---------------------------------------------------------------------
\* Specification of organizing a file: scan, group / merge / sort, render,
\* then the same three steps on the rendered text.
\* ---------------------------------------------------------------------
InitOrganize ==
    /\ pc = "scan"
    /\ \E ls \in Files : src = Join(ls, <<NL>>)
    /\ stmts = <<>>
    /\ merged = <<>>
    /\ rendered = <<>>
    /\ aux = [pass |-> 1, first |-> <<>>]

ScanFile ==
    /\ pc = "scan"
    /\ stmts' = parseRustFile(src).imports
    /\ pc' = "organize"
    /\ UNCHANGED <<src, merged, rendered, aux>>

Organize ==
    /\ pc = "organize"
    /\ Len(stmts) > 0
    /\ merged' = processGroups(stmts, NoDeps)
    /\ pc' = "render"
    /\ UNCHANGED <<src, stmts, rendered, aux>>

Render ==
    /\ pc = "render"
    /\ rendered' = formatImportsForFile(merged)
    /\ pc' = "rendered"
    /\ UNCHANGED <<src, stmts, merged, aux>>

OrganizeAgain ==
    /\ pc = "rendered"
    /\ aux.pass = 1
    /\ src' = rendered
    /\ aux' = [pass |-> 2, first |-> rendered]
    /\ pc' = "scan"
    /\ UNCHANGED <<stmts, merged, rendered>>

NextOrganize == ScanFile \/ Organize \/ Render \/ OrganizeAgain

SpecOrganize == InitOrganize /\ [][NextOrganize]_vars

\* ---------------------------------------------------------------------
\* Specification of the file scanner: parseRustFile on a file made of
\* parts, one iteration of its main loop at a time.  A part is some lines
\* of a file: a statement `text` with code `pre` before it and code `post`
\* after it (text, pre and post may each be empty).
\* ---------------------------------------------------------------------
MaxParts == 3   \* parts of a scanned file

FilePart(pre, text, post) == [pre |-> pre, text |-> text, post |-> post]

PartPool ==
    { FilePart(<<>>, Chars("use std::io;"), <<>>),
      FilePart(Chars("fn foo() {} "), Chars("use std::io;"), Chars(" const X: usize = 4;")),
      FilePart(Chars("let pause = 1; "), Chars("use a::b;"), <<>>),
      FilePart(Chars("    "), Chars("pub use a::b;"), Chars(" // t")),
      FilePart(<<>>, Chars("use a::{\n    b,\n    c,\n};"), <<>>),
      FilePart(Chars("mod m { "), Chars("pub(crate) use a::{b,\n  c::{d, e}};"), Chars(" }")),
      FilePart(<<>>, Chars("use x::\n    y;"), <<>>),
      FilePart(<<>>, Chars("use a::{\n// note\n    b};"), <<>>),
      FilePart(<<>>, Chars("use a::{b;\n    c};"), <<>>),
      FilePart(Chars("#[cfg(test)]"), <<>>, <<>>),
      FilePart(Chars("// note"), <<>>, <<>>),
      FilePart(<<>>, <<>>, <<>>),
      FilePart(Chars("fn main() {}"), <<>>, <<>>) }

PartText(part) == part.pre \o part.text \o part.post

PartLines(part) == SplitLines(PartText(part))

FileOfParts(parts) == Join([k \in 1..Len(parts) |-> PartText(parts[k])], <<NL>>)

InitScan ==
    /\ pc = "scanning"
    /\ \E parts \in SeqsUpTo(PartPool, MaxParts) :
         /\ parts # <<>>
         /\ src = FileOfParts(parts)
         /\ aux = [parts |-> parts, st |-> ScanInit(SplitLines(FileOfParts(parts)))]
    /\ stmts = <<>>
    /\ merged = <<>>
    /\ rendered = <<>>

ScanLine ==
    /\ pc = "scanning"
    /\ ~ScanDone(SplitLines(src), aux.st)
    /\ aux' = [aux EXCEPT !.st = scanStep(SplitLines(src), aux.st)]
    /\ UNCHANGED <<pc, src, stmts, merged, rendered>>

ScanEnd ==
    /\ pc = "scanning"
    /\ ScanDone(SplitLines(src), aux.st)
    /\ stmts' = scanResult(SplitLines(src), aux.st.imports).imports
    /\ pc' = "scanned"
    /\ UNCHANGED <<src, merged, rendered, aux>>

NextScan == ScanLine \/ ScanEnd

SpecScan == InitScan /\ [][NextScan]_vars

\* ---------------------------------------------------------------------
\* Specification of the grouper: a list of statements and a dependency
\* set are given; each statement is categorized, or the list is grouped.
\* ---------------------------------------------------------------------
MaxImports == 3   \* statements handed to the grouper

AttrTest == Chars("#[cfg(test)]")
AttrAllow == Chars("#[allow(unused)]")

Attributed(text, attributes) == [text |-> text, attributes |-> attributes]

ImportPool ==
    { Attributed(Chars("use std::io;"), <<>>), Attributed(Chars("use core::fmt;"), <<>>),
      Attributed(Chars("use alloc::vec;"), <<>>), Attributed(Chars("use crate::m;"), <<>>),
      Attributed(Chars("use super::p;"), <<>>), Attributed(Chars("use self::q;"), <<>>),
      Attributed(Chars("use serde::X;"), <<>>), Attributed(Chars("use unknown::Z;"), <<>>),
      Attributed(Chars("use crate::t;"), <<AttrTest>>),
      Attributed(Chars("use std::io;"), <<AttrAllow>>),
      Attributed(Chars("use crate::u;"), <<AttrTest, AttrAllow>>),
      Attributed(Chars("use serde::Y;"), <<AttrAllow, AttrTest>>) }

DependencySets ==
    { NoDeps,
      [dependencies |-> {Chars("serde"), Chars("std")},
       devDependencies |-> {Chars("crate")},
       buildDependencies |-> {}] }

ImportsOf(items) ==
    [k \in 1..Len(items) |->
        parseUseStatement(items[k].text, items[k].attributes,
                          Range(k - 1, 0, k - 1, Len(items[k].text))).stmt]

InitGroup ==
    /\ pc = "imports"
    /\ src = <<>>
    /\ \E items \in SeqsUpTo(ImportPool, MaxImports) : stmts = ImportsOf(items)
    /\ merged = <<>>
    /\ rendered = <<>>
    /\ \E deps \in DependencySets : aux = [deps |-> deps, categories |-> <<>>]

Categorize ==
    /\ pc = "imports"
    /\ aux' = [aux EXCEPT !.categories =
                 [k \in 1..Len(stmts) |-> categorizeImport(stmts[k], aux.deps)]]
    /\ pc' = "categorized"
    /\ UNCHANGED <<src, stmts, merged, rendered>>

Group ==
    /\ pc = "imports"
    /\ merged' = groupImports(stmts, aux.deps)
    /\ pc' = "grouped"
    /\ UNCHANGED <<src, stmts, rendered, aux>>

NextGroup == Categorize \/ Group

SpecGroup == InitGroup /\ [][NextGroup]_vars

\* ---------------------------------------------------------------------
\* SpecFilter: statements with diagnostics of the resolver, filtered
\* ---------------------------------------------------------------------
MaxDiags == 2

FilterPool ==
    << Chars("use std::{fmt::Write, fmt::Write as _};"),
       Chars("use std::fmt::Write;"),
       Chars("use std::fmt::Write as _;"),
       Chars("use std::{fmt::Write, io::Read};"),
       Chars("use std::env::{self, args};"),
       Chars("use std::env;"),
       Chars("use serde;") >>

\* the statements of the pool at the chosen indices, one per line
FilterFiles ==
    {ParsedAt([k \in 1..Len(ix) |-> FilterPool[ix[k]]]) :
       ix \in {i \in SeqsUpTo(1..Len(FilterPool), MaxStmts) :
                 Len(i) > 0 /\ \A k \in 1..(Len(i) - 1) : i[k] < i[k + 1]}}

\* the span from the first to the last segment of a flat import
PathSpan(flat) ==
    [start |-> flat.spans[1].start, end |-> flat.spans[Len(flat.spans)].end]

\* the ranges a diagnostic of the resolver may carry: a segment, a whole
\* path, a whole statement, or a place outside the imports
DiagnosticRanges(imports) ==
    LET flats == FlatConcat([k \in 1..Len(imports) |->
                               expandToFlatImports(imports[k].tree, <<>>, <<>>)])
    IN UNION {SeqToSet(flats[k].spans) \cup {PathSpan(flats[k])} : k \in 1..Len(flats)}
         \cup {imports[k].range : k \in 1..Len(imports)}
         \cup {[start |-> Pos(Len(imports) + 1, 0), end |-> Pos(Len(imports) + 1, 1)]}

SetToSeq(S) == CHOOSE f \in [1..Cardinality(S) -> S] : \A e \in S : \E k \in DOMAIN f : f[k] = e

DiagnosticLists(imports) ==
    {SetToSeq({[range |-> ds[k]] : k \in 1..Len(ds)}) :
       ds \in SeqsUpTo(DiagnosticRanges(imports), MaxDiags)}

InitFilter ==
    /\ pc = "diagnosed"
    /\ src = <<>>
    /\ stmts \in FilterFiles
    /\ merged = <<>>
    /\ rendered = <<>>
    /\ \E ds \in DiagnosticLists(stmts) : aux = [before |-> stmts, diagnostics |-> ds]

FilterUnused ==
    /\ pc = "diagnosed"
    /\ stmts' = filterUnusedImports(stmts, aux.diagnostics)
    /\ pc' = "filtered"
    /\ UNCHANGED <<src, merged, rendered, aux>>

RenderFiltered ==
    /\ pc = "filtered"
    /\ rendered' = Join([k \in 1..Len(stmts) |-> formatUseStatement(stmts[k])], <<NL>>)
    /\ pc' = "filteredRendered"
    /\ UNCHANGED <<src, stmts, merged, aux>>

NextFilter == FilterUnused \/ RenderFiltered

SpecFilter == InitFilter /\ [][NextFilter]_vars

\* ---------------------------------------------------------------------
\* SpecReadme: the import list of the README's Before example, or any
\* selection of its entries in their order, organized once.
\* ---------------------------------------------------------------------
ReadmeBefore ==
    << <<Chars("use serde::{Deserialize, Serialize};")>>,
       <<Chars("use std::io::Read;")>>,
       <<Chars("use crate::utils::helper;")>>,
       <<Chars("use std::collections::HashMap;")>>,
       <<Chars("use tokio::sync::mpsc;")>>,
       <<Chars("use super::parent_module;")>>,
       <<Chars("use std::io::Write;")>>,
       <<Chars("#[cfg(test)]"), Chars("use crate::test_helpers;")>> >>

ReadmeAfter ==
    << Chars("use std::{"),
       Chars("    collections::HashMap,"),
       Chars("    io::{"),
       Chars("        Read,"),
       Chars("        Write,"),
       Chars("    },"),
       Chars("};"),
       <<>>,
       Chars("use serde::{"),
       Chars("    Deserialize,"),
       Chars("    Serialize,"),
       Chars("};"),
       Chars("use tokio::sync::mpsc;"),
       <<>>,
       Chars("use super::parent_module;"),
       Chars("use crate::utils::helper;"),
       <<>>,
       Chars("#[cfg(test)]"),
       Chars("use crate::test_helpers;") >>

\* the entries of the Before list at the chosen places, as a file text
ReadmeSelection(chosen) ==
    Join(FlatConcat([k \in 1..Len(ReadmeBefore) |->
                       IF k \in chosen THEN ReadmeBefore[k] ELSE <<>>]), <<NL>>)

InitReadme ==
    /\ pc = "scan"
    /\ \E chosen \in SUBSET (1..Len(ReadmeBefore)) : src = ReadmeSelection(chosen)
    /\ stmts = <<>>
    /\ merged = <<>>
    /\ rendered = <<>>
    /\ aux = [pass |-> 1, first |-> <<>>]

NextReadme == ScanFile \/ Organize \/ Render

SpecReadme == InitReadme /\ [][NextReadme]_vars

\* ---------------------------------------------------------------------
\* Auto-import (getAutoImportPaths): the titles of the quick fixes of each
\* diagnostic are collected per symbol name.
\* ---------------------------------------------------------------------
\* the backquote character of a title (a string cannot hold one; the
\* apostrophe stands for it)
sTick == "'"

sImportTick == Chars("Import ") \o <<sTick>>

\* String.prototype.split(sep) for a non-empty separator
RECURSIVE SplitOn(_, _, _, _)
SplitOn(s, sep, from, p) ==
    IF p + Len(sep) > Len(s) THEN << SubSeq(s, from + 1, Len(s)) >>
    ELSE IF StartsWithAt(s, p, sep)
         THEN << SubSeq(s, from + 1, p) >> \o SplitOn(s, sep, p + Len(sep), p + Len(sep))
         ELSE SplitOn(s, sep, from, p + 1)

Includes(s, pat) == \E p \in 0..Len(s) : StartsWithAt(s, p, pat)

\* extractImportPath: the empty list for null, else a one-element list
extractImportPath(title) ==
    LET n == Len(title)
        inner == SubSeq(title, Len(sImportTick) + 1, n - 1)
        matches == /\ StartsWith(title, sImportTick)
                   /\ n >= Len(sImportTick) + 2
                   /\ title[n] = sTick
                   /\ \A k \in 1..Len(inner) : inner[k] # sTick
    IN IF ~matches THEN <<>>
       ELSE IF ~Includes(inner, sColons) THEN <<>>
       ELSE << inner >>

\* isTraitFromDiagnostic is the set of trait names the diagnostic carries
Diagnostic(traits, titles) == [traits |-> traits, titles |-> titles]

\* symbolToImports: a Map from symbol name to a Set of paths, as the list of
\* its entries [key, paths] in insertion order, each Set a list in
\* insertion order
addSuggestion(symbolToImports, path) ==
    LET parts == SplitOn(path, sColons, 0, 0)
        symbolName == parts[Len(parts)]
        has == \E k \in 1..Len(symbolToImports) : symbolToImports[k].key = symbolName
        withKey == IF has THEN symbolToImports
                   ELSE Append(symbolToImports, [key |-> symbolName, paths |-> <<>>])
    IN [k \in 1..Len(withKey) |->
          IF withKey[k].key = symbolName /\ ~(\E j \in 1..Len(withKey[k].paths) : withKey[k].paths[j] = path)
          THEN [withKey[k] EXCEPT !.paths = Append(@, path)]
          ELSE withKey[k]]

RECURSIVE addActions(_, _)
addActions(symbolToImports, titles) ==
    IF titles = <<>> THEN symbolToImports
    ELSE LET path == extractImportPath(Head(titles)) IN
         addActions(IF path # <<>> THEN addSuggestion(symbolToImports, path[1])
                    ELSE symbolToImports,
                    Tail(titles))

\* every symbol with a suggestion is imported, the first path taken
isUnambiguousOrFirst(pathSet) == Len(pathSet) >= 1

isUnambiguous(pathSet) == Len(pathSet) = 1

unambiguousPaths(symbolToImports, traitSymbols) ==
    FlatConcat([k \in 1..Len(symbolToImports) |->
       IF isUnambiguous(symbolToImports[k].paths)
       THEN << [path |-> symbolToImports[k].paths[1],
                isTrait |-> symbolToImports[k].key \in traitSymbols] >>
       ELSE <<>>])

\* ---------------------------------------------------------------------
\* SpecAuto: the diagnostics of a document are visited one by one, then
\* the unambiguous paths are returned.
\* ---------------------------------------------------------------------
MaxDiagnostics == 2
MaxActions == 2

PathPool ==
    { Chars("std::time::Duration"), Chars("core::time::Duration"),
      Chars("std::fmt::Write") }

ImportTitle(path) == sImportTick \o path \o <<sTick>>

OtherTitles ==
    { Chars("Import Duration"),
      sImportTick \o Chars("Duration") \o <<sTick>>,
      Chars("Qualify as ") \o <<sTick>> \o Chars("std::time::Duration") \o <<sTick>> }

TitlePool == {ImportTitle(p) : p \in PathPool} \cup OtherTitles

TraitSets == { {}, {Chars("Write")} }

InitAuto ==
    /\ pc = "collecting"
    /\ src = <<>>
    /\ stmts = <<>>
    /\ merged = <<>>
    /\ rendered = <<>>
    /\ aux = [visited |-> 0, titles |-> {}, symbolToImports |-> <<>>,
              traitSymbols |-> {}, paths |-> <<>>]

\* one iteration of the loop over the diagnostics; aux.titles records
\* every title the code actions have offered so far
VisitDiagnostic ==
    /\ pc = "collecting"
    /\ aux.visited < MaxDiagnostics
    /\ \E traits \in TraitSets : \E titles \in SeqsUpTo(TitlePool, MaxActions) :
         LET diagnostic == Diagnostic(traits, titles) IN
         aux' = [aux EXCEPT
                   !.visited = @ + 1,
                   !.titles = @ \cup SeqToSet(diagnostic.titles),
                   !.traitSymbols = @ \cup diagnostic.traits,
                   !.symbolToImports = addActions(@, diagnostic.titles)]
    /\ UNCHANGED <<pc, src, stmts, merged, rendered>>

ReturnPaths ==
    /\ pc = "collecting"
    /\ aux' = [aux EXCEPT !.paths = unambiguousPaths(aux.symbolToImports, aux.traitSymbols)]
    /\ pc' = "returned"
    /\ UNCHANGED <<src, stmts, merged, rendered>>

NextAuto == VisitDiagnostic \/ ReturnPaths

SpecAuto == InitAuto /\ [][NextAuto]_vars

\* ---------------------------------------------------------------------
\* SpecAttributed: statements with attribute lines through the pipeline
\* of organizeImports (group, merge and sort each group, format).
\* ---------------------------------------------------------------------
AttributedPool ==
    { Attributed(Chars("use crate::t;"), <<AttrTest>>),
      Attributed(Chars("use crate::v;"), <<AttrTest>>),
      Attributed(Chars("pub use crate::t;"), <<AttrTest>>),
      Attributed(Chars("use std::io;"), <<AttrAllow>>),
      Attributed(Chars("use crate::u;"), <<AttrTest, AttrAllow>>),
      Attributed(Chars("use std::io;"), <<>>) }

InitAttributed ==
    /\ pc = "imports"
    /\ src = <<>>
    /\ \E items \in SeqsUpTo(AttributedPool, MaxImports) : stmts = ImportsOf(items)
    /\ merged = <<>>
    /\ rendered = <<>>
    /\ aux = [deps |-> NoDeps, categories |-> <<>>]

ProcessGroups ==
    /\ pc = "imports"
    /\ merged' = processGroups(stmts, aux.deps)
    /\ pc' = "processed"
    /\ UNCHANGED <<src, stmts, rendered, aux>>

RenderGroups ==
    /\ pc = "processed"
    /\ rendered' = formatImportsForFile(merged)
    /\ pc' = "groupsRendered"
    /\ UNCHANGED <<src, stmts, merged, aux>>

NextAttributed == ProcessGroups \/ RenderGroups

SpecAttributed == InitAttributed /\ [][NextAttributed]_vars

\* ---------------------------------------------------------------------
\* SpecRange: statements at places of a document, and statements made
\* from import paths (createUseStatementsFromPaths), merged.
\* ---------------------------------------------------------------------
createUseStatementsFromPaths(paths) ==
    FlatConcat([k \in 1..Len(paths) |->
       LET useStr == IF paths[k].isTrait
                     THEN kwUse \o <<" ">> \o paths[k].path \o sAs \o sUnderscore \o <<";">>
                     ELSE kwUse \o <<" ">> \o paths[k].path \o <<";">>
           r == parseUseStatement(useStr, <<>>, ZeroRange)
       IN IF r.ok THEN << r.stmt >> ELSE <<>>])

Placed(text, range) == parseUseStatement(text, <<>>, range).stmt

PlacedPool ==
    { Placed(Chars("use a::T;"), Range(0, 0, 0, 9)),
      Placed(Chars("use a::U;"), Range(0, 10, 0, 19)),
      Placed(Chars("use a::V;"), Range(1, 0, 1, 9)),
      Placed(Chars("use a::{\n    W,\n};"), Range(2, 0, 4, 2)),
      Placed(Chars("use a::X;"), Range(4, 3, 4, 12)),
      Placed(Chars("use b::T;"), Range(5, 0, 5, 9)),
      Placed(Chars("pub use a::T;"), Range(6, 0, 6, 13)) }
      \cup SeqToSet(createUseStatementsFromPaths(
                      << [path |-> Chars("a::S"), isTrait |-> FALSE],
                         [path |-> Chars("a::W"), isTrait |-> TRUE] >>))

InitRange ==
    /\ pc = "input"
    /\ src = <<>>
    /\ stmts \in SeqsUpTo(PlacedPool, MaxStmts)
    /\ merged = <<>>
    /\ rendered = <<>>
    /\ aux = <<>>

NextRange == Merge \/ MergeGrouped

SpecRange == InitRange /\ [][NextRange]_vars

Init == InitOrganize
Next == NextOrganize
Spec == SpecOrganize

\* ---------------------------------------------------------------------
\* Readings of statements used by the properties
\* ---------------------------------------------------------------------

\* a flat import without its marker: `P` and `P::{self}` are the same import
NormFlat(imp) ==
    [path |-> IF imp.isGlob THEN imp.path ELSE Front(imp.path),
     alias |-> imp.alias, isGlob |-> imp.isGlob]

FlatList(ss) ==
    FlatConcat([k \in 1..Len(ss) |-> expandToFlatImports(ss[k].tree, <<>>, <<>>)])

FlatSet(ss) == {NormFlat(e) : e \in SeqToSet(FlatList(ss))}

Targets(ss) == UNION {SeqToSet(flattenUseTree(ss[k].tree, <<>>)) : k \in 1..Len(ss)}

ImportedPaths(ss) == {f.path : f \in {g \in FlatSet(ss) : ~g.isGlob}}

AliasesOf(ss, P) == {f.alias : f \in {g \in FlatSet(ss) : ~g.isGlob /\ g.path = P}}

Contributors(ss, P) ==
    {k \in 1..Len(FlatList(ss)) :
        ~FlatList(ss)[k].isGlob /\ NormFlat(FlatList(ss)[k]).path = P}

IsExplicit(alias) == alias # <<>> /\ alias # sUnderscore

ExplicitAliases(ss, P) == {a \in AliasesOf(ss, P) : IsExplicit(a)}

ExpectedAlias(aliases) ==
    IF \E a \in aliases : IsExplicit(a) THEN CHOOSE a \in aliases : IsExplicit(a)
    ELSE IF <<>> \in aliases THEN <<>>
    ELSE sUnderscore

Perms(n) == {f \in [1..n -> 1..n] : \A i, j \in 1..n : f[i] = f[j] => i = j}

Permute(ss, f) == [k \in 1..Len(ss) |-> ss[f[k]]]

SameRoot(ss) == \A i, j \in 1..Len(ss) : getRootPath(ss[i].tree) = getRootPath(ss[j].tree)

NoAliasConflict(ss) == \A P \in ImportedPaths(ss) : Cardinality(ExplicitAliases(ss, P)) <= 1

IsProperPrefix(P, Q) == Len(P) < Len(Q) /\ SubSeq(Q, 1, Len(P)) = P

\* the node of a tree reached by the path P from segment i, as a 0/1-element list
RECURSIVE Descend(_, _, _)
Descend(tree, P, i) ==
    IF tree.segment.name # P[i] THEN <<>>
    ELSE IF i = Len(P) THEN <<tree>>
    ELSE LET hit == {k \in 1..Len(tree.children) : tree.children[k].segment.name = P[i + 1]}
         IN IF hit = {} THEN <<>>
            ELSE Descend(tree.children[CHOOSE k \in hit : \A j \in hit : k <= j], P, i + 1)

NodeAt(ss, P) == FlatConcat([k \in 1..Len(ss) |-> Descend(ss[k].tree, P, 1)])

IsSelfLeaf(t) == t.segment.name = kwSelf /\ t.children = <<>> /\ ~t.isGlob

IsLeafNamed(t, name) == t.segment.name = name /\ t.children = <<>> /\ ~t.isGlob

ParentAndChild == ParsedAt(<< Chars("use a;"), Chars("use a::B;") >>)

\* ---------------------------------------------------------------------
\* Properties of the merge engine (SpecMerge)
\* ---------------------------------------------------------------------

\* C1: merging is lossless: the import targets (full path, glob included,
\* `P::{self}` read as `P`) of the merged statements are exactly the
\* import targets of the input statements.
MergeLossless ==
    pc \in {"merged", "mergedGrouped"} => Targets(merged) = Targets(stmts)

MergeLosslessWitness ==
    /\ pc = "merged"
    /\ Len(stmts) = 2
    /\ Len(merged) = 1
    /\ Cardinality(Targets(merged)) >= 3

\* C3: when a path has several contributors with at most one distinct
\* explicit alias, the merged import of the path carries the explicit
\* alias if there is one, else no alias if some contributor has none,
\* else `_`, whatever the order of the statements.
AliasPriority ==
    pc = "merged" =>
      \A P \in ImportedPaths(stmts) :
        (Cardinality(Contributors(stmts, P)) >= 2 /\ Cardinality(ExplicitAliases(stmts, P)) <= 1)
        => /\ AliasesOf(merged, P) = {ExpectedAlias(AliasesOf(stmts, P))}
           /\ \A f \in Perms(Len(stmts)) :
                AliasesOf(mergeUseStatements(Permute(stmts, f)), P)
                  = {ExpectedAlias(AliasesOf(stmts, P))}

\* C4: a path imported with an explicit alias R, and with no other
\* explicit alias, is imported with alias R by the merged statements.
AliasPreserved ==
    pc = "merged" =>
      \A P \in ImportedPaths(stmts) :
        \A R \in ExplicitAliases(stmts, P) :
          ExplicitAliases(stmts, P) = {R}
          => [path |-> P, alias |-> R, isGlob |-> FALSE] \in FlatSet(merged)

\* C5: a path that is imported itself and is a proper prefix of another
\* imported path has, in the merged tree, a node with a `self` leaf child
\* next to its other children; `use a;` with `use a::B;` gives one
\* statement whose root `a` has exactly the children `self` and `B`.
SelfInsertion ==
    pc = "merged" =>
      /\ \A P \in ImportedPaths(stmts) :
           (P # <<>> /\ \E g \in FlatSet(stmts) : IsProperPrefix(P, g.path))
           => LET n == NodeAt(merged, P) IN
              /\ Len(n) = 1
              /\ \E k \in 1..Len(n[1].children) : IsSelfLeaf(n[1].children[k])
              /\ \E k \in 1..Len(n[1].children) : ~IsSelfLeaf(n[1].children[k])
      /\ stmts = ParentAndChild
         => /\ Len(merged) = 1
            /\ merged[1].tree.segment.name = <<"a">>
            /\ Len(merged[1].tree.children) = 2
            /\ \E k \in 1..2 : IsSelfLeaf(merged[1].tree.children[k])
            /\ \E k \in 1..2 : IsLeafNamed(merged[1].tree.children[k], <<"B">>)

SelfInsertionWitness ==
    /\ pc = "merged"
    /\ stmts = ParentAndChild
    /\ Len(merged) = 1
    /\ Len(merged[1].tree.children) = 2

\* C6 as stated: for statements sharing a root, every permutation of the
\* list merges to the same set of flat imports (path, alias, glob flag).
MergeOrderIndependent ==
    (pc = "merged" /\ SameRoot(stmts)) =>
      \A f \in Perms(Len(stmts)) :
        FlatSet(mergeUseStatements(Permute(stmts, f))) = FlatSet(merged)

\* C6 amended: for statements sharing a root in which no path is imported
\* under two different explicit aliases, every permutation of the list
\* merges to the same set of flat imports.
MergeOrderIndependentNoConflict ==
    (pc = "merged" /\ SameRoot(stmts) /\ NoAliasConflict(stmts)) =>
      \A f \in Perms(Len(stmts)) :
        FlatSet(mergeUseStatements(Permute(stmts, f))) = FlatSet(merged)

MergeOrderWitness ==
    /\ pc = "merged"
    /\ Len(stmts) = 2
    /\ stmts[1].tree # stmts[2].tree
    /\ SameRoot(stmts)
    /\ NoAliasConflict(stmts)
    /\ \E P \in ImportedPaths(stmts) :
         sUnderscore \in AliasesOf(stmts, P) /\ ExplicitAliases(stmts, P) # {}
    /\ Len(merged) = 1

\* C7: flattening the tree rebuilt from the flat imports of a tree gives
\* the flat imports of the tree.
BuildInvertsFlatten ==
    pc = "rebuilt" =>
      \A k \in 1..Len(stmts) :
        /\ Len(aux[k]) = 1
        /\ FlatSet(<< [tree |-> aux[k][1]] >>) = FlatSet(<< stmts[k] >>)

PairOf(stmt) == <<getRootPath(stmt.tree), stmt.visibility>>

Pairs(ss) == {PairOf(ss[k]) : k \in 1..Len(ss)}

WithPair(ss, pair) == SelectSeq(ss, LAMBDA st : PairOf(st) = pair)

ParseRenderRoundTrip ==
    MatchesGrammar(tokenize(src)) =>
      /\ pc \in {"parsed", "rendered", "rescanned"} => aux.ok
      /\ pc = "rescanned"
         => /\ Len(merged) = 1
            /\ FlatSet(merged) = FlatSet(<< aux.stmt >>)

ParseRenderWitness ==
    /\ pc = "rescanned"
    /\ MatchesGrammar(tokenize(src))
    /\ Len(merged) = 1
    /\ Cardinality(FlatSet(merged)) >= 3
    /\ \E f \in FlatSet(merged) : IsExplicit(f.alias)

\* C10: parsing a text whose tokens do not match the grammar
\* `visibility? use tree ;` fails.
ParseRejectsMismatch ==
    (pc = "parsed" /\ ~MatchesGrammar(tokenize(src))) => ~aux.ok

RECURSIVE BraceNodes(_)
BraceNodes(tree) ==
    (IF needsBraces(tree) THEN 1 ELSE 0) +
    (IF tree.isGlob \/ tree.segment.name = kwSelf THEN 0
     ELSE LET counts == [k \in 1..Len(tree.children) |-> BraceNodes(tree.children[k])]
              sum[k \in 0..Len(counts)] == IF k = 0 THEN 0 ELSE sum[k - 1] + counts[k]
          IN sum[Len(counts)])

TokensOfType(tokens, type) == {k \in 1..Len(tokens) : tokens[k].type = type}

\* C17: in the rendered text a node is written inline (`parent::child`)
\* only when it has exactly one child that is neither `self` nor a glob:
\* `::` is never followed directly by `self` or `*`, and there is one
\* brace block for each node that has several children or a single `self`
\* or glob child.
InlineOnlySingleOrdinaryChild ==
    (pc = "rendered" /\ MatchesGrammar(tokenize(src))) =>
      LET tokens == tokenize(rendered) IN
      /\ \A k \in TokensOfType(tokens, "DOUBLE_COLON") :
           k < Len(tokens) => tokens[k + 1].type \notin {"SELF", "STAR"}
      /\ Cardinality(TokensOfType(tokens, "OPEN_BRACE")) = BraceNodes(aux.stmt.tree)

\* ---------------------------------------------------------------------
\* Properties of the sorter (SpecParse for parsed trees, SpecMerge for
\* merged trees)
\* ---------------------------------------------------------------------
\* 0 for a `self` child, 2 for a glob child, 1 for any other child
ChildClass(t) == IF t.segment.name = kwSelf THEN 0 ELSE IF t.isGlob THEN 2 ELSE 1

InChildOrder(a, b) ==
    \/ ChildClass(a) < ChildClass(b)
    \/ /\ ChildClass(a) = ChildClass(b)
       /\ ChildClass(a) = 1 => CompareCodeUnits(a.segment.name, b.segment.name) <= 0

RECURSIVE ChildrenOrdered(_)
ChildrenOrdered(tree) ==
    /\ \A i, j \in 1..Len(tree.children) :
         i < j => InChildOrder(tree.children[i], tree.children[j])
    /\ \A k \in 1..Len(tree.children) : ChildrenOrdered(tree.children[k])

\* the trees sortUseTree returned in this state
SortedTrees ==
    IF pc = "sorted"
    THEN {stmts[k].tree : k \in 1..Len(stmts)} \cup {merged[k].tree : k \in 1..Len(merged)}
    ELSE {}

\* C14: in a tree returned by sortUseTree the children of every node are
\* ordered: `self` first, globs last, the others by ascending name.
SortedChildOrder == \A t \in SortedTrees : ChildrenOrdered(t)

\* ---------------------------------------------------------------------
\* Properties of organizing a file (SpecOrganize)
\* ---------------------------------------------------------------------
WellFormedLine(line) == MatchesGrammar(tokenize(line))

CodeLine == Chars("fn main() {}")

RegionLines(lines) == {k \in 1..Len(lines) : \A j \in 1..k : lines[j] # CodeLine}

\* C2: organizing the text rendered by a first pass renders the same text.
OrganizeIdempotent ==
    (pc = "rendered" /\ aux.pass = 2) => rendered = aux.first

\* C9: the scan of a file returns every well-formed statement of the
\* import region and no malformed one.
PartialFailureScan ==
    (pc = "organize" /\ aux.pass = 1) =>
      LET lines == SplitLines(src) IN
      \A k \in RegionLines(lines) :
        LET here == {n \in 1..Len(stmts) : stmts[n].range.start.line = k - 1} IN
        IF WellFormedLine(lines[k])
        THEN \E n \in here :
               stmts[n].tree = parseUseStatement(lines[k], <<>>,
                                  Range(k - 1, 0, k - 1, Len(lines[k]))).stmt.tree
        ELSE here = {}

\* ---------------------------------------------------------------------
\* Properties of the file scanner (SpecScan)
\* ---------------------------------------------------------------------
RECURSIVE PartStartLine(_, _)
PartStartLine(parts, k) ==
    IF k = 1 THEN 0 ELSE PartStartLine(parts, k - 1) + Len(PartLines(parts[k - 1]))

PartEndLine(parts, k) == PartStartLine(parts, k) + Len(PartLines(parts[k])) - 1

IsStatementPart(part) == part.text # <<>>

IsMultiLine(part) == NL \in SeqToSet(part.text)

IsCodePart(part) ==
    /\ part.text = <<>>
    /\ Trim(part.pre) # <<>>
    /\ ~StartsWith(Trim(part.pre), sComment)
    /\ ~StartsWith(Trim(part.pre), sAttr)

\* no line of ordinary code lies before part k
Reached(parts, k) == \A j \in 1..(k - 1) : ~IsCodePart(parts[j])

LastLineOf(text) == SplitLines(text)[Len(SplitLines(text))]

\* the statements a scan returned that touch the lines from..to
ReturnedIn(from, to) ==
    {n \in 1..Len(stmts) :
        \/ stmts[n].range.start.line \in from..to
        \/ stmts[n].range.end.line \in from..to}

\* C11: a one-line statement with code before or after it on its line is
\* reported with a range that starts at the column of its `use` keyword
\* (or visibility qualifier) and ends one column past its `;`.
ScanSharedLineRange ==
    pc = "scanned" =>
      \A k \in 1..Len(aux.parts) :
        LET part == aux.parts[k] IN
        ( /\ IsStatementPart(part) /\ ~IsMultiLine(part)
          /\ (part.pre # <<>> \/ part.post # <<>>)
          /\ Reached(aux.parts, k) )
        => \E n \in 1..Len(stmts) :
             /\ stmts[n].range.end.line = PartStartLine(aux.parts, k)
             /\ stmts[n].range.start.column = Len(part.pre)
             /\ stmts[n].range.end.column = Len(part.pre) + Len(part.text)

\* C12: a well-formed statement that ends on a later line than it starts
\* is returned as exactly one statement, from the line of its `use`
\* keyword to the line of its `;`; while the lines of a statement are
\* scanned, the statement stays open until the line of its last `;`.
ScanMultiLineCapture ==
    /\ pc = "scanned" =>
         \A k \in 1..Len(aux.parts) :
           LET part == aux.parts[k]
               from == PartStartLine(aux.parts, k)
               to == PartEndLine(aux.parts, k)
           IN ( /\ IsStatementPart(part) /\ IsMultiLine(part)
                /\ MatchesGrammar(tokenize(part.text))
                /\ Reached(aux.parts, k) )
              => /\ Cardinality(ReturnedIn(from, to)) = 1
                 /\ \A n \in ReturnedIn(from, to) :
                      /\ stmts[n].range.start.line = from
                      /\ stmts[n].range.end.line = to
                      /\ stmts[n].range.end.column = Len(LastLineOf(part.text))
    /\ (pc = "scanning" /\ aux.st.i > 0) =>
         \A k \in 1..Len(aux.parts) :
           ( /\ IsStatementPart(aux.parts[k]) /\ IsMultiLine(aux.parts[k])
             /\ aux.st.i - 1 \in PartStartLine(aux.parts, k)..PartEndLine(aux.parts, k) )
           => (aux.st.inUseStatement <=> aux.st.i - 1 < PartEndLine(aux.parts, k))

IsAttributePart(part) == part.text = <<>> /\ StartsWith(Trim(part.pre), sAttr)

IsBlankOrCommentPart(part) ==
    part.text = <<>> /\ (Trim(part.pre) = <<>> \/ StartsWith(Trim(part.pre), sComment))

\* the attribute lines directly above part k, nearest last: only blank or
\* comment lines lie between them and the part
RECURSIVE AttributesAbove(_, _)
AttributesAbove(parts, k) ==
    IF k = 1 THEN <<>>
    ELSE IF IsAttributePart(parts[k - 1])
         THEN Append(AttributesAbove(parts, k - 1), Trim(parts[k - 1].pre))
    ELSE IF IsBlankOrCommentPart(parts[k - 1]) THEN AttributesAbove(parts, k - 1)
    ELSE <<>>

\* the statement parts whose last line is the line where statement n ends
PartsOf(n) ==
    {k \in 1..Len(aux.parts) :
       IsStatementPart(aux.parts[k]) /\ PartEndLine(aux.parts, k) = stmts[n].range.end.line}

\* C22: every returned statement, on one line or on several, carries as
\* its attributes exactly the attribute lines directly above it, in
\* source order.
ScanAttributes ==
    pc = "scanned" =>
      \A n \in 1..Len(stmts) : \A k \in PartsOf(n) :
        stmts[n].attributes = AttributesAbove(aux.parts, k)

\* C23: the range of every returned statement covers the statement text
\* only: it starts at the first character of the statement (visibility
\* qualifier or `use`), never on a preceding attribute line.
ScanRangeExcludesAttributes ==
    pc = "scanned" =>
      \A n \in 1..Len(stmts) : \A k \in PartsOf(n) :
        /\ stmts[n].range.start.line = PartStartLine(aux.parts, k)
        /\ stmts[n].range.start.column = Len(aux.parts[k].pre)

RECURSIVE SegmentsOf(_)
SegmentsOf(tree) ==
    {tree.segment} \cup UNION {SegmentsOf(tree.children[k]) : k \in 1..Len(tree.children)}

\* the text of the document between the two ends of a range on one line
TextAt(lines, range) ==
    IF range.start.line = range.end.line /\ range.start.line < Len(lines)
    THEN Slice(lines[range.start.line + 1], range.start.column, range.end.column)
    ELSE <<>>

\* C24: in every returned statement the range of each segment is the
\* position of its token in the document: the text between its start
\* and its end is the name of the segment.
ScanSegmentRanges ==
    pc = "scanned" =>
      \A n \in 1..Len(stmts) : \A segment \in SegmentsOf(stmts[n].tree) :
        /\ segment.range # <<>>
        /\ TextAt(SplitLines(src), segment.range[1]) = segment.name

PosBefore(p, q) == p.line < q.line \/ (p.line = q.line /\ p.column < q.column)

IsCodeText(text) ==
    Trim(text) # <<>> /\ ~StartsWith(Trim(text), sComment) /\ ~StartsWith(Trim(text), sAttr)

\* the places of ordinary code in part k: the code before and after its
\* statement on the statement's lines, or the line of a part that is code
CodeSpans(parts, k) ==
    LET part == parts[k]
        from == PartStartLine(parts, k)
        to == PartEndLine(parts, k)
        endCol == Len(LastLineOf(part.pre \o part.text))
    IN IF IsStatementPart(part)
       THEN (IF IsCodeText(part.pre)
             THEN {[start |-> Pos(from, 0), end |-> Pos(from, Len(part.pre))]} ELSE {})
            \cup
            (IF IsCodeText(part.post)
             THEN {[start |-> Pos(to, endCol), end |-> Pos(to, endCol + Len(part.post))]} ELSE {})
       ELSE IF IsCodePart(part)
            THEN {[start |-> Pos(from, 0), end |-> Pos(from, Len(part.pre))]}
            ELSE {}

Overlaps(a, b) == PosBefore(a.start, b.end) /\ PosBefore(b.start, a.end)

\* C25: the imports region holds no ordinary code: neither code that
\* shares a line with a statement nor any other line of code.
ScanRegionHoldsNoCode ==
    pc = "scanned" =>
      \A region \in SeqToSet(scanResult(SplitLines(src), stmts).importsRange) :
        \A k \in 1..Len(aux.parts) : \A code \in CodeSpans(aux.parts, k) :
          ~Overlaps(code, region)

IsCommentPart(part) == part.text = <<>> /\ StartsWith(Trim(part.pre), sComment)

\* C29: over the returned statements in order, blockId starts at 0 and
\* never decreases, and two consecutive statements have different
\* blockIds iff a comment line outside any statement lies between them;
\* blank lines alone never change the blockId.
ScanBlockIds ==
    pc = "scanned" =>
      /\ Len(stmts) > 0 => stmts[1].blockId = 0
      /\ \A n \in 1..(Len(stmts) - 1) :
           /\ stmts[n].blockId <= stmts[n + 1].blockId
           /\ \A k1 \in PartsOf(n) : \A k2 \in PartsOf(n + 1) :
                (stmts[n].blockId # stmts[n + 1].blockId)
                  <=> (\E j \in (k1 + 1)..(k2 - 1) : IsCommentPart(aux.parts[j]))

ScanBlockIdsWitness ==
    /\ pc = "scanned"
    /\ Len(stmts) = 2
    /\ stmts[1].blockId = 0
    /\ stmts[2].blockId = 1
    /\ Len(aux.parts) = 3

\* the parts whose statement was returned
ReturnedParts == UNION {PartsOf(n) : n \in 1..Len(stmts)}

\* the lines of code that come after a returned statement
StopParts ==
    {k \in 1..Len(aux.parts) :
       IsCodePart(aux.parts[k]) /\ \E j \in ReturnedParts : j < k}

StdRoots == {Chars("std"), Chars("core"), Chars("alloc")}

InternalRoots == {Chars("crate"), Chars("super"), Chars("self")}

ExpectedCategory(stmt) ==
    IF stmt.attributes # <<>> THEN CatAttributed
    ELSE IF stmt.tree.segment.name \in StdRoots THEN CatStd
    ELSE IF stmt.tree.segment.name \in InternalRoots THEN CatInternal
    ELSE CatExternal

\* C15: a statement is Attributed iff it has an attribute line; otherwise
\* Std iff its root is std, core or alloc; otherwise Internal iff its root
\* is crate, super or self; otherwise External, whatever the dependencies.
CategoryByAttributesAndRoot ==
    pc = "categorized" =>
      \A k \in 1..Len(stmts) : aux.categories[k] = ExpectedCategory(stmts[k])

CategoryWitness ==
    /\ pc = "categorized"
    /\ aux.deps # NoDeps
    /\ \E k \in 1..Len(stmts) :
         aux.categories[k] = CatExternal /\ ~isDependency(stmts[k].tree.segment.name, aux.deps)
    /\ \E k \in 1..Len(stmts) :
         aux.categories[k] = CatStd /\ stmts[k].tree.segment.name = Chars("alloc")
    /\ \E k \in 1..Len(stmts) : aux.categories[k] = CatAttributed

CategoryRank(c) ==
    IF c = CatStd THEN 1 ELSE IF c = CatExternal THEN 2 ELSE IF c = CatInternal THEN 3 ELSE 4

AttributeSet(stmt) == SeqToSet(stmt.attributes)

\* C16: the groups are the Std, External and Internal groups in that
\* order, then one Attributed group per distinct set of attribute lines;
\* no group is empty and every statement is in the group of its kind.
GroupOrder ==
    pc = "grouped" =>
      /\ \A g \in 1..Len(merged) : merged[g].imports # <<>>
      /\ \A g, h \in 1..Len(merged) :
           g < h => /\ CategoryRank(merged[g].category) <= CategoryRank(merged[h].category)
                    /\ merged[g].category = merged[h].category
                       => /\ merged[g].category = CatAttributed
                          /\ AttributeSet(merged[g].imports[1]) # AttributeSet(merged[h].imports[1])
      /\ \A g \in 1..Len(merged) : \A k \in 1..Len(merged[g].imports) :
           /\ ExpectedCategory(merged[g].imports[k]) = merged[g].category
           /\ AttributeSet(merged[g].imports[k]) = AttributeSet(merged[g].imports[1])
      /\ FlatConcat([g \in 1..Len(merged) |-> merged[g].imports]) \in
           {Permute(stmts, f) : f \in Perms(Len(stmts))}

GroupOrderWitness ==
    /\ pc = "grouped"
    /\ Len(merged) = 2
    /\ merged[1].category = CatExternal
    /\ merged[2].category = CatAttributed
    /\ Len(merged[2].imports) = 2
    /\ merged[2].imports[1].attributes # merged[2].imports[2].attributes

\* ---------------------------------------------------------------------
\* Properties of the removal of unused imports (SpecFilter)
\* ---------------------------------------------------------------------
PosAtMost(p, q) == p.line < q.line \/ (p.line = q.line /\ p.column <= q.column)

RangeInside(inner, outer) == PosAtMost(outer.start, inner.start) /\ PosAtMost(inner.end, outer.end)

FlatsOf(stmt) == expandToFlatImports(stmt.tree, <<>>, <<>>)

\* the imports left of the statement that was at the given range
LeftOf(range) ==
    UNION {{NormFlat(e) : e \in SeqToSet(FlatsOf(stmts[n]))} :
             n \in {m \in 1..Len(stmts) : stmts[m].range = range}}

\* C18: after the filter, for every supplied span U and every flat import
\* whose segment spans all lie inside U, that import is absent from the
\* result.
FilterRemovesContained ==
    pc = "filtered" =>
      \A d \in 1..Len(aux.diagnostics) : \A n \in 1..Len(aux.before) :
        \A flat \in SeqToSet(FlatsOf(aux.before[n])) :
          (\A k \in 1..Len(flat.spans) : RangeInside(flat.spans[k], aux.diagnostics[d].range))
            => NormFlat(flat) \notin LeftOf(aux.before[n].range)

\* a diagnostic whose range is the last segment of the flat import
PointsAt(diagnostic, flat) == diagnostic.range = flat.spans[Len(flat.spans)]

\* C19: when one statement contains both `P` and `P as _` and an unused
\* diagnostic points at either of them, the filtered statement still
\* imports `P` without an alias and no longer contains `P as _`.
FilterPrefersPlaceholder ==
    pc = "filtered" =>
      \A n \in 1..Len(aux.before) :
        LET flats == SeqToSet(FlatsOf(aux.before[n])) IN
        \A plain \in flats : \A placeholder \in flats :
          ( /\ plain.alias = <<>> /\ ~plain.isGlob
            /\ placeholder.alias = sUnderscore
            /\ placeholder.path = plain.path
            /\ \E d \in 1..Len(aux.diagnostics) :
                 PointsAt(aux.diagnostics[d], plain) \/ PointsAt(aux.diagnostics[d], placeholder) )
          => /\ NormFlat(plain) \in LeftOf(aux.before[n].range)
             /\ NormFlat(placeholder) \notin LeftOf(aux.before[n].range)


\* a diagnostic lies inside one of the segment spans of the flat import
Flagged(flat) ==
    \E d \in 1..Len(aux.diagnostics) : \E k \in 1..Len(flat.spans) :
      RangeInside(aux.diagnostics[d].range, flat.spans[k])

\* C27: every flat import of an input statement that no diagnostic flags
\* is still imported, with the same alias, by the output statement at the
\* same place; with no diagnostics the statements are returned unchanged.
FilterKeepsUnflagged ==
    pc = "filtered" =>
      /\ \A n \in 1..Len(aux.before) : \A flat \in SeqToSet(FlatsOf(aux.before[n])) :
           ~Flagged(flat) => NormFlat(flat) \in LeftOf(aux.before[n].range)
      /\ aux.diagnostics = <<>> => stmts = aux.before

\* ---------------------------------------------------------------------
\* Properties of the README example (SpecReadme)
\* ---------------------------------------------------------------------
\* C20: organizing the README's Before import list renders the README's
\* After text: the groups in the order std, external, internal,
\* attributed, with `use super::parent_module;` before
\* `use crate::utils::helper;` in the internal group.
ReadmeExample ==
    (pc = "rendered" /\ src = ReadmeSelection(1..Len(ReadmeBefore)))
      => TrimRight(rendered) = Join(ReadmeAfter, <<NL>>)


\* ---------------------------------------------------------------------
\* Properties of auto-import (SpecAuto)
\* ---------------------------------------------------------------------
\* the paths suggested so far: the qualified paths of the import titles
SuggestedPaths == {p \in PathPool : ImportTitle(p) \in aux.titles}

\* the symbol a path names: what follows its last colon
NameOf(path) ==
    LET colons == {k \in 1..Len(path) : path[k] = ":"}
        last == IF colons = {} THEN 0 ELSE CHOOSE k \in colons : \A j \in colons : j <= k
    IN SubSeq(path, last + 1, Len(path))

SuggestedFor(name) == {p \in SuggestedPaths : NameOf(p) = name}

ReturnedPaths == {aux.paths[k].path : k \in 1..Len(aux.paths)}

AttributesSurvive ==
    /\ pc \in {"processed", "groupsRendered"} =>
         \A g \in 1..Len(merged) :
           merged[g].category = CatAttributed =>
             \A k \in 1..Len(merged[g].imports) :
               \E n \in 1..Len(stmts) :
                 /\ stmts[n].attributes # <<>>
                 /\ merged[g].imports[k].attributes = stmts[n].attributes
    /\ pc = "groupsRendered" =>
         \A n \in 1..Len(stmts) : \A a \in SeqToSet(stmts[n].attributes) :
           a \in SeqToSet(SplitLines(rendered))


\* ---------------------------------------------------------------------
\* Properties of the range of a merged statement (SpecRange)
\* ---------------------------------------------------------------------
\* the input statements merged into the statement m
RangeContributors(m) ==
    {n \in 1..Len(stmts) :
       /\ stmts[n].tree.segment.name = m.tree.segment.name
       /\ pc = "mergedGrouped" => stmts[n].visibility = m.visibility}

\* C28: the range of a merged statement is the union of the ranges of
\* the statements merged into it: its start is their least start
\* position and its end their greatest end position, by line and then
\* column, whatever their order and including ranges 0:0-0:0.
MergedRangeIsUnion ==
    pc \in {"merged", "mergedGrouped"} =>
      \A k \in 1..Len(merged) :
        LET from == RangeContributors(merged[k]) IN
        /\ \E n \in from : merged[k].range.start = stmts[n].range.start
        /\ \E n \in from : merged[k].range.end = stmts[n].range.end
        /\ \A n \in from :
             /\ PosAtMost(merged[k].range.start, stmts[n].range.start)
             /\ PosAtMost(stmts[n].range.end, merged[k].range.end)

====
